---------------------------- MODULE Spec2Model ----------------------------
(***************************************************************************)
(* Model of the multi-object tracker of src/src/lib/tracking/tracker.ts    *)
(* and of the detectors that feed it (saliency-detector.ts,                *)
(* motion-detection.ts and the MotionDetector of src/unnamed/part_002).    *)
(*                                                                         *)
(* JavaScript numbers are modelled in fixed point: lengths and velocities  *)
(* are integers counting 1/Scale pixel, scores (IoU, distance score,       *)
(* iouThreshold) are integers counting 1/ScoreScale.  Products with the    *)
(* constants 0.7, 0.3, 0.9 are rounded to the nearest unit.  Sequences are *)
(* 1-based where the code's arrays are 0-based.                            *)
(***************************************************************************)
EXTENDS Integers, Sequences, FiniteSets, TLC

VARIABLES
    nextTrackId,   \* the module-level counter (tracker.ts:11)
    tracks,        \* tracks[i]: the private field Tracker.tracks of instance i
    config,        \* config[i]: the private field Tracker.config of instance i
    last,          \* what the last call did (instance, arguments, matching, result)
    log,           \* the calls made so far, oldest first
    solo,          \* instance 1 replayed alone in a process of its own
    probe,         \* a helper function's arguments and, once called, its result
    det,           \* the fields of the detector object
    dlast          \* what the last call on the detector did

trackerVars == <<nextTrackId, tracks, config, last, log, solo>>
detectorVars == <<det, dlast>>
vars == <<nextTrackId, tracks, config, last, log, solo, probe, det, dlast>>

---------------------------------------------------------------------------
(* Bounds of the model *)

\* number of calls in a behaviour of Spec
MaxOps == 3

\* the Tracker instances of the process
Trackers == {1, 2}

---------------------------------------------------------------------------
(* Numbers *)

\* units per pixel of the fixed-point lengths
Scale == 10
\* units per 1.0 of the fixed-point scores
ScoreScale == 1000

Max(a, b) == IF a >= b THEN a ELSE b
Min(a, b) == IF a <= b THEN a ELSE b
Max3(a, b, c) == Max(a, Max(b, c))

\* a / b rounded to the nearest integer (b > 0), halves rounded up
RoundDiv(a, b) == (2 * a + b) \div (2 * b)

\* Math.sqrt, rounded down
RECURSIVE SqrtSearch(_, _, _)
SqrtSearch(n, lo, hi) ==
    IF lo >= hi THEN lo
    ELSE LET mid == (lo + hi + 1) \div 2
         IN  IF mid * mid <= n THEN SqrtSearch(n, mid, hi)
             ELSE SqrtSearch(n, lo, mid - 1)
Sqrt(n) == SqrtSearch(n, 0, 40000)

---------------------------------------------------------------------------
(* Types (types.ts) *)

\* BoundingBox, given in pixels
Box(x, y, w, h) == [x |-> x * Scale, y |-> y * Scale,
                    width |-> w * Scale, height |-> h * Scale]

\* Detection; score in percent
Det(b, c, s) == [bbox |-> b, class |-> c, score |-> s]

\* DEFAULT_TRACKER_CONFIG
DEFAULT_TRACKER_CONFIG ==
    [iouThreshold |-> 200, maxAge |-> 2, minHits |-> 2, maxLineDistance |-> 300]

\* faulty variant of Merge: the fields not in partial go back to the defaults
MergeOntoDefaults(base, partial) ==
    [f \in DOMAIN base |->
        IF f \in DOMAIN partial THEN partial[f] ELSE DEFAULT_TRACKER_CONFIG[f]]

\* { ...base, ...partial }: the fields of partial replace those of base
Merge(base, partial) ==
    [f \in DOMAIN base |-> IF f \in DOMAIN partial THEN partial[f] ELSE base[f]]

---------------------------------------------------------------------------
(* Helpers of tracker.ts *)

\* calculateIoU, as intersection and union areas
Intersection(box1, box2) ==
    LET x1 == Max(box1.x, box2.x)
        y1 == Max(box1.y, box2.y)
        x2 == Min(box1.x + box1.width, box2.x + box2.width)
        y2 == Min(box1.y + box1.height, box2.y + box2.height)
    IN  Max(0, x2 - x1) * Max(0, y2 - y1)

Union(box1, box2) ==
    box1.width * box1.height + box2.width * box2.height - Intersection(box1, box2)

\* faulty variant of calculateIoU: the intersection is not taken off the union
calculateIoUSum(box1, box2) ==
    IF Union(box1, box2) > 0
    THEN (Intersection(box1, box2) * ScoreScale)
             \div (box1.width * box1.height + box2.width * box2.height)
    ELSE 0

calculateIoU(box1, box2) ==
    IF Union(box1, box2) > 0
    THEN (Intersection(box1, box2) * ScoreScale) \div Union(box1, box2)
    ELSE 0

\* getCenter, doubled so that width / 2 stays an integer
getCenter2(bbox) == [x |-> 2 * bbox.x + bbox.width, y |-> 2 * bbox.y + bbox.height]

\* calculateDistance of two doubled centres: twice the distance, squared
calculateDistanceSq(p1, p2) ==
    LET dx == p1.x - p2.x
        dy == p1.y - p2.y
    IN  dx * dx + dy * dy

\* predictNextPosition
predictNextPosition(track) ==
    [x |-> track.bbox.x + track.velocity.x,
     y |-> track.bbox.y + track.velocity.y,
     width |-> track.bbox.width,
     height |-> track.bbox.height]

\* faulty variant of MaxDist: 1500 for 150
MaxDistWide(bbox) == Max3(bbox.width, bbox.height, 1500 * Scale)

\* maxDist of tracker.ts:92
MaxDist(bbox) == Max3(bbox.width, bbox.height, 150 * Scale)

\* distanceScore of tracker.ts:93, from twice the distance
DistanceScore(distance2, maxDist) ==
    Max(0, ScoreScale - (distance2 * ScoreScale) \div (2 * maxDist))

\* iou > 0.05 (tracker.ts:96), decided exactly on the areas
IouAbove(box1, box2) == 20 * Intersection(box1, box2) > Union(box1, box2)

\* the combined score of tracker.ts:96
Score(iouAbove, iou, distanceScore) ==
    IF iouAbove THEN iou + distanceScore \div 2 ELSE (distanceScore * 8) \div 10

\* the entry pushed at tracker.ts:99; near is distance < maxDist
EntryWith(di, ti, iou, iouAbove, distSq, maxDist) ==
    [di |-> di, ti |-> ti, iou |-> iou,
     score |-> Score(iouAbove, iou, DistanceScore(Sqrt(distSq), maxDist)),
     near |-> distSq < (2 * maxDist) * (2 * maxDist)]

EntryFor(di, ti, detBox, predictedBox, maxDist) ==
    EntryWith(di, ti, calculateIoU(detBox, predictedBox),
              IouAbove(detBox, predictedBox),
              calculateDistanceSq(getCenter2(detBox), getCenter2(predictedBox)),
              maxDist)

\* faulty variant of ScoreEntry: the track is taken where it is, not where
\* it is predicted
ScoreEntryInPlace(detections, trks, di, ti) ==
    EntryFor(di, ti, detections[di].bbox, trks[ti].bbox, MaxDist(trks[ti].bbox))

\* One cell of the score matrix (tracker.ts:81-99): detection di, track ti
ScoreEntry(detections, trks, di, ti) ==
    EntryFor(di, ti, detections[di].bbox, predictNextPosition(trks[ti]),
             MaxDist(trks[ti].bbox))

\* the cells in the order of the loops: di outer, ti inner
AllEntries(detections, trks) ==
    [k \in 1..(Len(detections) * Len(trks)) |->
        ScoreEntry(detections, trks,
                   ((k - 1) \div Len(trks)) + 1, ((k - 1) % Len(trks)) + 1)]

\* faulty variant of IsCandidate: the distance fallback is left out
IsCandidateScoreOnly(e, iouThreshold) == e.score >= iouThreshold

\* faulty variant of IsCandidate: every pair is a candidate
IsCandidateAlways(e, iouThreshold) == TRUE

\* the test of tracker.ts:98
IsCandidate(e, iouThreshold) == e.score >= iouThreshold \/ e.near

\* the score matrix before sorting
ScoreMatrix(detections, trks, iouThreshold) ==
    SelectSeq(AllEntries(detections, trks), LAMBDA e : IsCandidate(e, iouThreshold))

\* Array.prototype.sort with (a, b) => b.score - a.score: stable, descending
RECURSIVE InsertDesc(_, _)
InsertDesc(e, s) ==
    IF s = <<>> THEN <<e>>
    ELSE IF Head(s).score >= e.score THEN <<Head(s)>> \o InsertDesc(e, Tail(s))
    ELSE <<e>> \o s

RECURSIVE SortDesc(_)
SortDesc(s) ==
    IF s = <<>> THEN <<>>
    ELSE InsertDesc(s[Len(s)], SortDesc(SubSeq(s, 1, Len(s) - 1)))

\* the greedy loop of tracker.ts:107-113
RECURSIVE Greedy(_, _, _, _)
Greedy(sorted, matched, usedDetections, usedTracks) ==
    IF sorted = <<>> THEN matched
    ELSE LET e == Head(sorted)
         IN  IF e.di \notin usedDetections /\ e.ti \notin usedTracks
             THEN Greedy(Tail(sorted), Append(matched, <<e.di, e.ti>>),
                         usedDetections \cup {e.di}, usedTracks \cup {e.ti})
             ELSE Greedy(Tail(sorted), matched, usedDetections, usedTracks)

\* the indexes of 1..n outside used, ascending
RECURSIVE Unused(_, _)
Unused(n, used) ==
    IF n = 0 THEN <<>>
    ELSE IF n \in used THEN Unused(n - 1, used)
    ELSE Append(Unused(n - 1, used), n)

\* the value returned at tracker.ts:115-122
MatchResult(matched, nd, nt) ==
    [matched |-> matched,
     unmatchedDetections |-> Unused(nd, {matched[k][1] : k \in DOMAIN matched}),
     unmatchedTracks |-> Unused(nt, {matched[k][2] : k \in DOMAIN matched})]

\* faulty variant of matchDetectionsToTracks: the score matrix is not sorted
matchDetectionsUnsorted(detections, trks, iouThreshold) ==
    MatchResult(Greedy(ScoreMatrix(detections, trks, iouThreshold), <<>>, {}, {}),
                Len(detections), Len(trks))

\* matchDetectionsToTracks (tracker.ts:64-123)
matchDetectionsToTracks(detections, trks, iouThreshold) ==
    MatchResult(Greedy(SortDesc(ScoreMatrix(detections, trks, iouThreshold)),
                       <<>>, {}, {}),
                Len(detections), Len(trks))

---------------------------------------------------------------------------
(* Tracker.update, step by step *)

\* the cap of Track.history (tracker.ts:175, 196)
HistoryCap == 100

\* faulty variant of PushHistory: pop() instead of shift(), the newest entry goes
PushHistoryDropNewest(history, b) ==
    IF Len(history) + 1 > HistoryCap THEN history ELSE Append(history, b)

\* history.push(b); if (history.length > 100) history.shift()
PushHistory(history, b) ==
    LET pushed == Append(history, b)
    IN  IF Len(pushed) > HistoryCap THEN Tail(pushed) ELSE pushed

\* faulty variant of UpdateMatched: age++ is left out
UpdateMatchedSameAge(track, detection) ==
    LET oldCenter == getCenter2(track.bbox)
        newCenter == getCenter2(detection.bbox)
        newVelocityX2 == newCenter.x - oldCenter.x
        newVelocityY2 == newCenter.y - oldCenter.y
    IN  [track EXCEPT
            !.velocity = [x |-> RoundDiv(6 * track.velocity.x + 7 * newVelocityX2, 20),
                          y |-> RoundDiv(6 * track.velocity.y + 7 * newVelocityY2, 20)],
            !.bbox = detection.bbox,
            !.score = detection.score,
            !.class = detection.class,
            !.timeSinceUpdate = 0,
            !.history = PushHistory(@, detection.bbox)]

\* faulty variant of UpdateMatched: the track keeps its class
UpdateMatchedKeepClass(track, detection) ==
    LET oldCenter == getCenter2(track.bbox)
        newCenter == getCenter2(detection.bbox)
        newVelocityX2 == newCenter.x - oldCenter.x
        newVelocityY2 == newCenter.y - oldCenter.y
    IN  [track EXCEPT
            !.velocity = [x |-> RoundDiv(6 * track.velocity.x + 7 * newVelocityX2, 20),
                          y |-> RoundDiv(6 * track.velocity.y + 7 * newVelocityY2, 20)],
            !.bbox = detection.bbox,
            !.score = detection.score,
            !.age = @ + 1,
            !.timeSinceUpdate = 0,
            !.history = PushHistory(@, detection.bbox)]

\* Step 2 (tracker.ts:149-178): a matched track takes the detection
UpdateMatched(track, detection) ==
    LET oldCenter == getCenter2(track.bbox)
        newCenter == getCenter2(detection.bbox)
        newVelocityX2 == newCenter.x - oldCenter.x
        newVelocityY2 == newCenter.y - oldCenter.y
    IN  [track EXCEPT
            !.velocity = [x |-> RoundDiv(6 * track.velocity.x + 7 * newVelocityX2, 20),
                          y |-> RoundDiv(6 * track.velocity.y + 7 * newVelocityY2, 20)],
            !.bbox = detection.bbox,
            !.score = detection.score,
            !.class = detection.class,
            !.age = @ + 1,
            !.timeSinceUpdate = 0,
            !.history = PushHistory(@, detection.bbox)]

\* faulty variant of AgeUnmatched: timeSinceUpdate++ is left out
AgeUnmatchedFrozen(track) ==
    [track EXCEPT
        !.age = @ + 1,
        !.bbox = predictNextPosition(track),
        !.velocity = [x |-> RoundDiv(9 * track.velocity.x, 10),
                      y |-> RoundDiv(9 * track.velocity.y, 10)],
        !.history = PushHistory(@, predictNextPosition(track))]

\* faulty variant of AgeUnmatched: the track coasts for one frame more
AgeUnmatchedLonger(track) ==
    [track EXCEPT
        !.timeSinceUpdate = @ + 1,
        !.age = @ + 1,
        !.bbox = IF track.timeSinceUpdate + 1 <= 6
                 THEN predictNextPosition(track) ELSE @,
        !.velocity = IF track.timeSinceUpdate + 1 <= 6
                     THEN [x |-> RoundDiv(9 * track.velocity.x, 10),
                           y |-> RoundDiv(9 * track.velocity.y, 10)]
                     ELSE @,
        !.history = IF track.timeSinceUpdate + 1 <= 6
                    THEN PushHistory(@, predictNextPosition(track)) ELSE @]

\* Step 3 (tracker.ts:181-200): an unmatched track ages and coasts
AgeUnmatched(track) ==
    LET aged == [track EXCEPT !.timeSinceUpdate = @ + 1, !.age = @ + 1]
        predicted == predictNextPosition(aged)
    IN  IF aged.timeSinceUpdate <= 5
        THEN [aged EXCEPT
                 !.bbox = predicted,
                 !.velocity = [x |-> RoundDiv(9 * aged.velocity.x, 10),
                               y |-> RoundDiv(9 * aged.velocity.y, 10)],
                 !.history = PushHistory(@, predicted)]
        ELSE aged

\* faulty variant of NewTrack: age starts at 0
NewTrackAgeZero(id, detection) ==
    [id |-> id,
     bbox |-> detection.bbox,
     class |-> detection.class,
     score |-> detection.score,
     age |-> 0,
     timeSinceUpdate |-> 0,
     velocity |-> [x |-> 0, y |-> 0],
     history |-> <<detection.bbox>>]

\* Step 4 (tracker.ts:205-214): the track made for an unmatched detection
NewTrack(id, detection) ==
    [id |-> id,
     bbox |-> detection.bbox,
     class |-> detection.class,
     score |-> detection.score,
     age |-> 1,
     timeSinceUpdate |-> 0,
     velocity |-> [x |-> 0, y |-> 0],
     history |-> <<detection.bbox>>]

\* faulty variant of Alive: <= for <
AliveInclusive(track, cfg) == track.timeSinceUpdate <= cfg.maxAge

\* Step 5 (tracker.ts:219-221): the tracks that stay
Alive(track, cfg) == track.timeSinceUpdate < cfg.maxAge

\* faulty variant of Visible: only confirmed tracks are returned
VisibleConfirmedOnly(track, cfg) == track.age >= cfg.minHits

\* the filter of the return statement (tracker.ts:224-227)
Visible(track, cfg) == track.age >= cfg.minHits \/ track.timeSinceUpdate = 0

\* Steps 2 and 3 over the tracks held before the call
Stepped(trks, detections, matched) ==
    [ti \in DOMAIN trks |->
        IF \E k \in DOMAIN matched : matched[k][2] = ti
        THEN UpdateMatched(trks[ti],
                 detections[matched[CHOOSE k \in DOMAIN matched :
                                        matched[k][2] = ti][1]])
        ELSE AgeUnmatched(trks[ti])]

\* Step 4 over the unmatched detections: ids next, next + 1, ...
Created(next, detections, unmatchedDetections) ==
    [k \in DOMAIN unmatchedDetections |->
        NewTrack(next + k - 1, detections[unmatchedDetections[k]])]

\* this.tracks before step 5, each track with the index it had before the
\* call (0 for a track made by this call)
Tagged(stepped, created) ==
    [k \in 1..(Len(stepped) + Len(created)) |->
        IF k <= Len(stepped)
        THEN [track |-> stepped[k], from |-> k]
        ELSE [track |-> created[k - Len(stepped)], from |-> 0]]

\* Step 5 (tracker.ts:219-221)
Prune(all, cfg) == SelectSeq(all, LAMBDA e : Alive(e.track, cfg))

\* the return statement (tracker.ts:224-227)
Returned(trks, cfg) == SelectSeq(trks, LAMBDA t : Visible(t, cfg))

\* what update() leaves and returns; origin[k] is the index tracks[k] had
\* before the call, created the ids given out
UpdateResult(kept, cfg, next, m) ==
    [tracks |-> [k \in DOMAIN kept |-> kept[k].track],
     origin |-> [k \in DOMAIN kept |-> kept[k].from],
     next |-> next + Len(m.unmatchedDetections),
     created |-> [k \in DOMAIN m.unmatchedDetections |-> next + k - 1],
     matched |-> m.matched,
     unmatchedDetections |-> m.unmatchedDetections,
     unmatchedTracks |-> m.unmatchedTracks,
     ret |-> Returned([k \in DOMAIN kept |-> kept[k].track], cfg)]

UpdateWith(trks, cfg, next, detections, m) ==
    UpdateResult(Prune(Tagged(Stepped(trks, detections, m.matched),
                              Created(next, detections, m.unmatchedDetections)),
                       cfg),
                 cfg, next, m)

\* Tracker.update on an instance whose fields are trks and cfg, with the
\* counter at next
Update(trks, cfg, next, detections) ==
    UpdateWith(trks, cfg, next, detections,
               matchDetectionsToTracks(detections, trks, cfg.iouThreshold))

\* the value reset() gives the counter (tracker.ts:242)
ResetId == 1

---------------------------------------------------------------------------
(* The calls on Tracker instances *)

\* what `last` holds after a call that is not update()
NoUpdate(op, i, cfg) ==
    [op |-> op, inst |-> i, dets |-> <<>>, partial |-> <<>>, pre |-> <<>>,
     cfg |-> cfg,
     next |-> nextTrackId, origin |-> <<>>, created |-> <<>>, matched |-> <<>>,
     unmatchedDetections |-> <<>>, unmatchedTracks |-> <<>>, ret |-> <<>>]

LogEntry(op, i, detections, created) ==
    [op |-> op, inst |-> i, dets |-> detections, created |-> created]

\* new Tracker(partial) (tracker.ts:132-134)
Construct(partial) == Merge(DEFAULT_TRACKER_CONFIG, partial)

\* instance i: update(detections) (tracker.ts:139-228)
DoUpdate(i, detections) ==
    \E r \in {Update(tracks[i], config[i], nextTrackId, detections)},
       alone \in {Update(solo.tracks, config[i], solo.nextTrackId, detections)} :
        /\ tracks' = [tracks EXCEPT ![i] = r.tracks]
        /\ nextTrackId' = r.next
        /\ last' = [op |-> "update", inst |-> i, dets |-> detections,
                    partial |-> <<>>, pre |-> tracks[i], cfg |-> config[i], next |-> nextTrackId,
                    origin |-> r.origin, created |-> r.created,
                    matched |-> r.matched,
                    unmatchedDetections |-> r.unmatchedDetections,
                    unmatchedTracks |-> r.unmatchedTracks, ret |-> r.ret]
        /\ log' = Append(log, LogEntry("update", i, detections, r.created))
        /\ solo' = IF i = 1
                   THEN [tracks |-> alone.tracks, nextTrackId |-> alone.next,
                         ret |-> alone.ret]
                   ELSE solo
        /\ UNCHANGED <<config, probe, det, dlast>>

\* instance i: reset() (tracker.ts:240-243)
DoReset(i) ==
    /\ tracks' = [tracks EXCEPT ![i] = <<>>]
    /\ nextTrackId' = ResetId
    /\ last' = NoUpdate("reset", i, config[i])
    /\ log' = Append(log, LogEntry("reset", i, <<>>, <<>>))
    /\ solo' = IF i = 1
               THEN [tracks |-> <<>>, nextTrackId |-> ResetId, ret |-> <<>>]
               ELSE solo
    /\ UNCHANGED <<config, probe, det, dlast>>

\* instance i: setConfig(partial) (tracker.ts:248-250)
DoSetConfig(i, partial) ==
    /\ config' = [config EXCEPT ![i] = Merge(@, partial)]
    /\ last' = [NoUpdate("setConfig", i, config'[i]) EXCEPT !.partial = partial]
    /\ log' = Append(log, LogEntry("setConfig", i, <<>>, <<>>))
    /\ UNCHANGED <<nextTrackId, tracks, solo, probe, det, dlast>>

\* the ids instance i gave out in the first n calls since it was constructed
\* or last reset, in order
RECURSIVE IssuedUpTo(_, _)
IssuedUpTo(i, n) ==
    IF n = 0 THEN <<>>
    ELSE IF log[n].inst # i THEN IssuedUpTo(i, n - 1)
    ELSE IF log[n].op = "reset" THEN <<>>
    ELSE IssuedUpTo(i, n - 1) \o log[n].created

Issued(i) == IssuedUpTo(i, Len(log))

\* reset() was called on instance i
WasReset(i) == \E n \in DOMAIN log : log[n].inst = i /\ log[n].op = "reset"

---------------------------------------------------------------------------
(* Spec: any interleaving of calls on the instances *)

DetA == Det(Box(0, 0, 10, 10), "person", 90)
DetB == Det(Box(2, 2, 10, 10), "person", 80)
DetC == Det(Box(300, 0, 10, 10), "car", 70)

\* the detection lists a caller passes to update()
Frames == {<<>>, <<DetA>>, <<DetB>>, <<DetC>>, <<DetA, DetC>>, <<DetA, DetB>>}

\* the partial configs passed to the constructor
InitConfigs == {<<>>, [maxAge |-> 1, minHits |-> 1]}

\* the partial configs passed to setConfig
ConfigChanges == {[maxAge |-> 0], [minHits |-> 3],
                  [iouThreshold |-> -100, minHits |-> 0]}

\* no helper is being called, no detector has been constructed
Idle == [op |-> "none"]

InitCommon ==
    /\ nextTrackId = 1
    /\ tracks = [i \in Trackers |-> <<>>]
    /\ log = <<>>
    /\ solo = [tracks |-> <<>>, nextTrackId |-> 1, ret |-> <<>>]
    /\ probe = Idle
    /\ det = Idle
    /\ dlast = Idle

Init ==
    /\ InitCommon
    /\ config \in [Trackers -> {Construct(p) : p \in InitConfigs}]
    /\ last = NoUpdate("new", 1, config[1])

UpdateCall == \E i \in Trackers, f \in Frames : Len(log) < MaxOps /\ DoUpdate(i, f)
ResetCall == \E i \in Trackers : Len(log) < MaxOps /\ DoReset(i)
SetConfigCall ==
    \E i \in Trackers, p \in ConfigChanges : Len(log) < MaxOps /\ DoSetConfig(i, p)

Next == UpdateCall \/ ResetCall \/ SetConfigCall

Spec == Init /\ [][Next]_vars

---------------------------------------------------------------------------
(* Properties of Spec *)

\* the last call was update(); these name its instance and what it left
Updated == last.op = "update"
Held == tracks[last.inst]
MatchedTrack(ti) == \E j \in DOMAIN last.matched : last.matched[j][2] = ti
InHeld(t) == \E j \in DOMAIN Held : Held[j] = t
ShownBy(t, cfg) == t.age >= cfg.minHits \/ t.timeSinceUpdate = 0

\* C1: between its construction (or last reset) and its next reset an
\* instance never gives the same id twice, and no two tracks it holds share
\* an id
C1_IdsUnique ==
    \A i \in Trackers :
        /\ \A a, b \in DOMAIN Issued(i) : a # b => Issued(i)[a] # Issued(i)[b]
        /\ \A a, b \in DOMAIN tracks[i] : a # b => tracks[i][a].id # tracks[i][b].id

\* C2: what instance 1 holds and returns is what it would hold and return
\* had no call been made on any other instance
C2_Independent ==
    /\ tracks[1] = solo.tracks
    /\ (Updated /\ last.inst = 1 => last.ret = solo.ret)

\* C3: after update(), a retained track that was held before the call has
\* timeSinceUpdate 0 iff a detection was matched to it, and otherwise its
\* previous timeSinceUpdate plus 1
C3_TimeSinceUpdate ==
    Updated =>
        \A k \in DOMAIN Held :
            last.origin[k] # 0 =>
                /\ Held[k].timeSinceUpdate = 0 <=> MatchedTrack(last.origin[k])
                /\ ~MatchedTrack(last.origin[k]) =>
                       Held[k].timeSinceUpdate
                           = last.pre[last.origin[k]].timeSinceUpdate + 1

C3_Witness ==
    /\ Updated
    /\ \E k \in DOMAIN Held :
          /\ last.origin[k] # 0
          /\ MatchedTrack(last.origin[k])
          /\ Held[k].timeSinceUpdate = 0
    /\ \E k \in DOMAIN Held :
          /\ last.origin[k] # 0
          /\ ~MatchedTrack(last.origin[k])
          /\ Held[k].timeSinceUpdate = 1

\* C4: update() returns exactly the retained tracks with age >= minHits or
\* timeSinceUpdate = 0
C4_ReturnsVisible ==
    Updated =>
        /\ \A k \in DOMAIN last.ret :
              ShownBy(last.ret[k], last.cfg) /\ InHeld(last.ret[k])
        /\ \A j \in DOMAIN Held :
              ShownBy(Held[j], last.cfg) =>
                  \E k \in DOMAIN last.ret : last.ret[k] = Held[j]
        /\ Len(last.ret)
              = Cardinality({j \in DOMAIN Held : ShownBy(Held[j], last.cfg)})

C4_Witness ==
    /\ Updated
    /\ last.ret # <<>>
    /\ \E j \in DOMAIN Held :
          /\ Held[j].age < last.cfg.minHits
          /\ Held[j].timeSinceUpdate > 0
          /\ \A k \in DOMAIN last.ret : last.ret[k] # Held[j]

\* C5: after update() no retained track has timeSinceUpdate >= maxAge, and
\* a track whose run of update() calls without a matching detection reaches
\* maxAge in this call is neither retained nor returned
C5_Pruned ==
    Updated =>
        /\ \A k \in DOMAIN Held : Held[k].timeSinceUpdate < last.cfg.maxAge
        /\ \A k \in DOMAIN last.ret : InHeld(last.ret[k])
        /\ \A n \in DOMAIN last.unmatchedTracks :
              last.pre[last.unmatchedTracks[n]].timeSinceUpdate + 1
                      >= last.cfg.maxAge
                  => \A k \in DOMAIN last.origin :
                         last.origin[k] # last.unmatchedTracks[n]

C5_Witness ==
    /\ Updated
    /\ last.cfg.maxAge = 2
    /\ \E n \in DOMAIN last.unmatchedTracks :
          /\ last.pre[last.unmatchedTracks[n]].timeSinceUpdate = 1
          /\ \A k \in DOMAIN last.origin :
                last.origin[k] # last.unmatchedTracks[n]

\* every detection left unmatched by the last update() has its new track,
\* with the next id, among the tracks returned
NewTracksReturned ==
    \A n \in DOMAIN last.unmatchedDetections :
        \E k \in DOMAIN last.ret :
            /\ last.ret[k].id = last.next + n - 1
            /\ last.ret[k].age = 1
            /\ last.ret[k].timeSinceUpdate = 0
            /\ last.ret[k].velocity = [x |-> 0, y |-> 0]
            /\ last.ret[k].bbox = last.dets[last.unmatchedDetections[n]].bbox
            /\ \E j \in DOMAIN Held : Held[j] = last.ret[k] /\ last.origin[j] = 0

\* C8 as stated: every unmatched detection gives a new track (age 1,
\* timeSinceUpdate 0, velocity {0,0}, next id) that the same update() returns
C8_NewTrackReturned == Updated => NewTracksReturned

\* C8 amended: the same, when maxAge >= 1
C8_NewTrackReturnedIfKept == Updated /\ last.cfg.maxAge >= 1 => NewTracksReturned

C8_Witness ==
    /\ Updated
    /\ last.cfg.maxAge >= 1
    /\ last.cfg.minHits >= 2
    /\ last.pre # <<>>
    /\ last.unmatchedDetections # <<>>
    /\ NewTracksReturned

\* C9: after reset() the instance holds no tracks, and the first track it
\* makes afterwards has id 1
C9_ResetRestartsIds ==
    /\ last.op = "reset" => tracks[last.inst] = <<>>
    /\ \A i \in Trackers : WasReset(i) /\ Issued(i) # <<>> => Issued(i)[1] = 1

\* the calls made on instance i, oldest first
CallsOn(i) == SelectSeq(log, LAMBDA e : e.inst = i)

\* instance i is newly constructed and has been given exactly two frames
TwoFramesOn(i) ==
    /\ Len(CallsOn(i)) = 2
    /\ CallsOn(i)[1].op = "update"
    /\ CallsOn(i)[2].op = "update"

\* C11: on a fresh tracker, update([bbox {0,0,10,10}]) followed by
\* update([bbox {2,2,10,10}]) leaves a single track with id 1, age 2 and
\* velocity {2,2} to within 0.2 px
C11_TwoFrames ==
    \A i \in Trackers :
        /\ TwoFramesOn(i)
        /\ Len(CallsOn(i)[1].dets) = 1
        /\ Len(CallsOn(i)[2].dets) = 1
        /\ CallsOn(i)[1].dets[1].bbox = Box(0, 0, 10, 10)
        /\ CallsOn(i)[2].dets[1].bbox = Box(2, 2, 10, 10)
        => /\ Len(tracks[i]) = 1
           /\ tracks[i][1].id = 1
           /\ tracks[i][1].age = 2
           /\ tracks[i][1].velocity.x - 2 * Scale \in -2..2
           /\ tracks[i][1].velocity.y - 2 * Scale \in -2..2

\* C12: on a fresh tracker, frame 1 with detection A only, then frame 2
\* with A (matched to the existing track) and another detection B: the
\* frame-2 result has exactly two tracks, ids {1,2}, track 1 with age 2 and
\* track 2 with age 1
C12_SecondDetection ==
    /\ Updated
    /\ TwoFramesOn(last.inst)
    /\ Len(CallsOn(last.inst)[1].dets) = 1
    /\ Len(last.dets) = 2
    /\ Len(last.pre) = 1
    /\ \E di \in DOMAIN last.dets :
          /\ last.dets[di] = CallsOn(last.inst)[1].dets[1]
          /\ last.matched = <<<<di, 1>>>>
    => /\ Len(last.ret) = 2
       /\ {last.ret[k].id : k \in DOMAIN last.ret} = {1, 2}
       /\ \A k \in DOMAIN last.ret :
             /\ last.ret[k].id = 1 => last.ret[k].age = 2
             /\ last.ret[k].id = 2 => last.ret[k].age = 1

\* a config outside the ranges of types.ts:33-42
OutOfRange(cfg) == cfg.iouThreshold < 0 \/ cfg.maxAge <= 0 \/ cfg.minHits <= 0

\* C16: setConfig(partial) replaces exactly the fields present in partial,
\* whatever their values, and leaves the other fields, the other instances,
\* the tracks and the id counter as they were; an update() under a config
\* with out-of-range values still returns a list of tracks the instance holds
C16_SetConfigMerges ==
    [][/\ last'.op = "setConfig" =>
              /\ DOMAIN config'[last'.inst] = DOMAIN config[last'.inst]
              /\ \A f \in DOMAIN config[last'.inst] :
                     config'[last'.inst][f]
                         = IF f \in DOMAIN last'.partial
                           THEN last'.partial[f]
                           ELSE config[last'.inst][f]
              /\ \A j \in Trackers \ {last'.inst} : config'[j] = config[j]
              /\ tracks' = tracks
              /\ nextTrackId' = nextTrackId
       /\ last'.op = "update" /\ OutOfRange(config[last'.inst]) =>
              /\ last'.cfg = config[last'.inst]
              /\ config' = config
              /\ \A k \in DOMAIN last'.ret :
                     \E j \in DOMAIN tracks'[last'.inst] :
                         tracks'[last'.inst][j] = last'.ret[k]
      ]_vars

C16_Witness ==
    /\ Updated
    /\ last.cfg.iouThreshold < 0
    /\ last.cfg.minHits <= 0
    /\ last.cfg.maxAge = 1
    /\ last.pre # <<>>
    /\ last.dets # <<>>
    /\ last.ret # <<>>

---------------------------------------------------------------------------
(* SpecOcc: one object seen for three frames, hidden for two, seen again *)

\* a bounding box moved by d[1], d[2] pixels
Shifted(bbox, d) == [bbox EXCEPT !.x = @ + d[1] * Scale, !.y = @ + d[2] * Scale]

OccConfigs == {[maxAge |-> 5],
               [maxAge |-> 5, minHits |-> 1, iouThreshold |-> 500]}

\* how far the object moves between two frames in which it is seen
OccMoves == {<<0, 0>>, <<2, 2>>, <<20, 0>>, <<-100, 50>>}

\* where it reappears, from the position predicted for its track
OccOffsets == {<<0, 0>>, <<20, 0>>, <<-60, 80>>, <<100, 100>>}

InitOcc ==
    /\ InitCommon
    /\ \E p \in OccConfigs : config = [i \in Trackers |-> Construct(p)]
    /\ last = NoUpdate("new", 1, config[1])

OccFirst ==
    /\ Len(log) = 0
    /\ \E d \in {DetA, DetC} : DoUpdate(1, <<d>>)

OccSeen ==
    /\ Len(log) \in {1, 2}
    /\ \E mv \in OccMoves :
          DoUpdate(1, <<Det(Shifted(tracks[1][1].bbox, mv), "person", 90)>>)
    /\ last'.matched # <<>>

OccHidden ==
    /\ Len(log) \in {3, 4}
    /\ DoUpdate(1, <<>>)

OccReappear ==
    /\ Len(log) = 5
    /\ \E off \in OccOffsets :
          DoUpdate(1, <<Det(Shifted(predictNextPosition(tracks[1][1]), off),
                            "person", 90)>>)

NextOcc == OccFirst \/ OccSeen \/ OccHidden \/ OccReappear

SpecOcc == InitOcc /\ [][NextOcc]_vars

\* C6: with maxAge = 5, a track matched in 3 consecutive frames, unmatched
\* in the next 2, whose detection then reappears near its predicted position
\* keeps its id: the detection is matched to it and no track is created
C6_SameIdAfterOcclusion ==
    Len(log) = 6 =>
        /\ last.created = <<>>
        /\ last.matched = <<<<1, 1>>>>
        /\ Len(tracks[1]) = 1
        /\ tracks[1][1].id = log[1].created[1]
        /\ tracks[1][1].timeSinceUpdate = 0
        /\ Issued(1) = log[1].created

C6_Witness ==
    /\ Len(log) = 6
    /\ last.cfg.maxAge = 5
    /\ last.pre[1].timeSinceUpdate = 2
    /\ last.pre[1].age = 5
    /\ last.pre[1].velocity # [x |-> 0, y |-> 0]
    /\ last.dets[1].bbox # predictNextPosition(last.pre[1])
    /\ tracks[1][1].id = log[1].created[1]
    /\ tracks[1][1].timeSinceUpdate = 0

---------------------------------------------------------------------------
(* SpecSeq: successive frames of one detection each *)

\* number of frames in a behaviour of SpecSeq
MaxSeqFrames == 3

SeqDets == {Det(Box(x, 0, 10, 10), "person", 90) : x \in {0, 20, 200, 400, 600}}

SeqConfigs == {<<>>, [maxAge |-> 30], [iouThreshold |-> 0]}

InitSeq ==
    /\ InitCommon
    /\ \E p \in SeqConfigs : config = [i \in Trackers |-> Construct(p)]
    /\ last = NoUpdate("new", 1, config[1])

SeqFrame ==
    /\ Len(log) < MaxSeqFrames
    /\ \E d \in SeqDets : DoUpdate(1, <<d>>)

NextSeq == SeqFrame

SpecSeq == InitSeq /\ [][NextSeq]_vars

\* the box passed in the n-th frame
FedBox(n) == log[n].dets[1].bbox

\* every frame so far made a track, and the ids grew from frame to frame
EveryFrameNewId ==
    /\ Len(Issued(1)) = Len(log)
    /\ \A n \in DOMAIN log : log[n].created = <<Issued(1)[n]>>
    /\ \A a, b \in DOMAIN Issued(1) : a < b => Issued(1)[a] < Issued(1)[b]

NoTwoOverlap ==
    \A a, b \in DOMAIN log : a < b => Intersection(FedBox(a), FedBox(b)) = 0

\* no two centres closer than 150 px
AllFarApart ==
    \A a, b \in DOMAIN log :
        a < b => calculateDistanceSq(getCenter2(FedBox(a)), getCenter2(FedBox(b)))
                     >= (2 * 150 * Scale) * (2 * 150 * Scale)

---------------------------------------------------------------------------
(* SpecHist: one object followed for more frames than history holds *)

\* number of frames in a behaviour of SpecHist
MaxHistFrames == 104

\* the frames in which the object may be missed
HistGaps == {3, 102, 103}

HistConfigs == {<<>>, [maxAge |-> 30, minHits |-> 1]}

InitHist ==
    /\ InitCommon
    /\ \E p \in HistConfigs : config = [i \in Trackers |-> Construct(p)]
    /\ last = NoUpdate("new", 1, config[1])

\* the object moves one pixel a frame
HistSeen ==
    /\ Len(log) < MaxHistFrames
    /\ DoUpdate(1, <<Det(Box(Len(log) + 1, 0, 10, 10), "person", 90)>>)

HistMissed ==
    /\ Len(log) < MaxHistFrames
    /\ Len(log) + 1 \in HistGaps
    /\ DoUpdate(1, <<>>)

NextHist == HistSeen \/ HistMissed

SpecHist == InitHist /\ [][NextHist]_vars

\* C10: a history never holds more than 100 entries; an update() appends
\* the track's new bbox at the end and, when that makes 101, removes the
\* oldest entry
C10_HistoryFifo ==
    /\ \A i \in Trackers : \A k \in DOMAIN tracks[i] :
          Len(tracks[i][k].history) <= 100
    /\ Updated =>
          \A k \in DOMAIN Held :
              last.origin[k] # 0 =>
                  \/ /\ Held[k].timeSinceUpdate > 5
                     /\ Held[k].history = last.pre[last.origin[k]].history
                  \/ /\ Len(last.pre[last.origin[k]].history) < 100
                     /\ Held[k].history
                            = Append(last.pre[last.origin[k]].history, Held[k].bbox)
                  \/ /\ Len(last.pre[last.origin[k]].history) = 100
                     /\ Held[k].history
                            = Append(Tail(last.pre[last.origin[k]].history),
                                     Held[k].bbox)

C10_Witness ==
    /\ Updated
    /\ \E k \in DOMAIN Held :
          /\ last.origin[k] # 0
          /\ Len(last.pre[last.origin[k]].history) = 100
          /\ Len(Held[k].history) = 100
          /\ Held[k].history[100] = Held[k].bbox
          /\ Held[k].history[1] = last.pre[last.origin[k]].history[2]
          /\ Held[k].history[1] # last.pre[last.origin[k]].history[1]

---------------------------------------------------------------------------
(* SpecZero: frames that carry detections of zero area *)

\* number of frames in a behaviour of SpecZero
MaxZeroFrames == 3

\* a point inside DetA, a horizontal line inside DetA, a vertical line far
\* from everything else
DetZPoint == Det(Box(5, 5, 0, 0), "person", 60)
DetZLine == Det(Box(0, 0, 10, 0), "person", 60)
DetZFar == Det(Box(400, 200, 0, 10), "person", 60)

ZeroFrames == {<<DetA>>, <<DetZPoint>>, <<DetZFar>>, <<DetA, DetZLine>>,
               <<DetZFar, DetC>>, <<DetZPoint, DetZFar>>}

ZeroConfigs == {<<>>, [iouThreshold |-> 0], [maxAge |-> 5, minHits |-> 1]}

InitZero ==
    /\ InitCommon
    /\ \E p \in ZeroConfigs : config = [i \in Trackers |-> Construct(p)]
    /\ last = NoUpdate("new", 1, config[1])

ZeroFrame ==
    /\ Len(log) < MaxZeroFrames
    /\ \E f \in ZeroFrames : DoUpdate(1, f)

NextZero == ZeroFrame

SpecZero == InitZero /\ [][NextZero]_vars

ZeroArea(bbox) == bbox.width * bbox.height = 0

\* the centre of bbox is at least max(width, height, 150) px from the centre
\* predicted for track
FarFrom(bbox, track) ==
    calculateDistanceSq(getCenter2(bbox), getCenter2(predictNextPosition(track)))
        >= (2 * Max3(track.bbox.width, track.bbox.height, 150 * Scale))
               * (2 * Max3(track.bbox.width, track.bbox.height, 150 * Scale))

\* detection di of the last update() has IoU 0 with every track held before
\* the call, as it was and as it was predicted
ZeroIoU(di) ==
    \A ti \in DOMAIN last.pre :
        /\ calculateIoU(last.dets[di].bbox, last.pre[ti].bbox) = 0
        /\ calculateIoU(last.dets[di].bbox, predictNextPosition(last.pre[ti])) = 0

\* detection di of the last update() was matched to no track and a new
\* track, with the next id, was made for it
MadeNewTrack(di) ==
    /\ \A j \in DOMAIN last.matched : last.matched[j][1] # di
    /\ \E n \in DOMAIN last.unmatchedDetections :
          /\ last.unmatchedDetections[n] = di
          /\ last.created[n] = last.next + n - 1

\* C13 as stated: a detection of zero area has IoU 0 with every track, is
\* matched to no existing track, and update() makes a new track for it
C13_ZeroAreaUnmatched ==
    Updated =>
        \A di \in DOMAIN last.dets :
            ZeroArea(last.dets[di].bbox) => ZeroIoU(di) /\ MadeNewTrack(di)

\* C13 amended: a detection of zero area has IoU 0 with every track; with
\* iouThreshold > 0 it is matched only to a track whose predicted centre is
\* closer than max(width, height, 150) px, and when it is at least that far
\* from every track update() makes a new track for it
C13_ZeroAreaFar ==
    Updated =>
        \A di \in DOMAIN last.dets :
            ZeroArea(last.dets[di].bbox) =>
                /\ ZeroIoU(di)
                /\ last.cfg.iouThreshold > 0 =>
                      /\ \A j \in DOMAIN last.matched :
                            last.matched[j][1] = di =>
                                ~FarFrom(last.dets[di].bbox,
                                         last.pre[last.matched[j][2]])
                      /\ (\A ti \in DOMAIN last.pre :
                              FarFrom(last.dets[di].bbox, last.pre[ti]))
                             => MadeNewTrack(di)

C13_Witness ==
    /\ Updated
    /\ last.cfg.iouThreshold > 0
    /\ last.pre # <<>>
    /\ \E di \in DOMAIN last.dets :
          /\ ZeroArea(last.dets[di].bbox)
          /\ \A ti \in DOMAIN last.pre : FarFrom(last.dets[di].bbox, last.pre[ti])
          /\ MadeNewTrack(di)
          /\ \E k \in DOMAIN Held :
                last.origin[k] = 0 /\ Held[k].bbox = last.dets[di].bbox

---------------------------------------------------------------------------
(* SpecIoU: calculateIoU called on a pair of boxes *)

\* the tracker fields of a process in which no Tracker method is called
InitNoTracker ==
    /\ nextTrackId = 1
    /\ tracks = [i \in Trackers |-> <<>>]
    /\ log = <<>>
    /\ solo = [tracks |-> <<>>, nextTrackId |-> 1, ret |-> <<>>]
    /\ config = [i \in Trackers |-> Construct(<<>>)]
    /\ last = NoUpdate("new", 1, config[1])

\* the boxes passed: widths and heights of 0, 10 and 20 px
IoUBoxes == {Box(x, 0, w, h) : x \in {0, 5}, w \in {0, 10, 20}, h \in {0, 10}}

InitIoU ==
    /\ InitNoTracker
    /\ det = Idle
    /\ dlast = Idle
    /\ \E a \in IoUBoxes, b \in IoUBoxes :
          probe = [op |-> "calculateIoU", box1 |-> a, box2 |-> b,
                   called |-> FALSE, result |-> 0]

\* calculateIoU(box1, box2) (tracker.ts:16-28)
CallIoU ==
    /\ ~probe.called
    /\ probe' = [probe EXCEPT !.called = TRUE,
                              !.result = calculateIoU(probe.box1, probe.box2)]
    /\ UNCHANGED <<trackerVars, detectorVars>>

NextIoU == CallIoU

SpecIoU == InitIoU /\ [][NextIoU]_vars

\* C14 as stated: calculateIoU(A, A) = 1 for every box A of non-negative
\* width and height
C14_SelfIoU ==
    probe.called /\ probe.box1 = probe.box2 => probe.result = ScoreScale

\* C14 amended: calculateIoU(A, A) = 1 for every box A of positive width and
\* height, and 0 when the width or the height is 0
C14_SelfIoUPositive ==
    probe.called /\ probe.box1 = probe.box2 =>
        probe.result = IF probe.box1.width > 0 /\ probe.box1.height > 0
                       THEN ScoreScale ELSE 0

C14_Witness ==
    /\ probe.called
    /\ probe.box1 = probe.box2
    /\ probe.box1.width > 0
    /\ probe.box1.height > 0
    /\ probe.result = ScoreScale

---------------------------------------------------------------------------
(* SpecAlias: the caller changes a detection's bbox after passing it *)

\* number of update() calls in a behaviour of SpecAlias
MaxAliasFrames == 2

\* what the caller adds to the x and y of a bbox it passed, in pixels
AliasMoves == {<<300, 0>>, <<-3, 4>>}

\* the index, in the detections of the last update(), of the detection whose
\* bbox object track k of the instance holds as its bbox (tracker.ts:167,
\* 207: the object is assigned, not copied), or 0 when the track's bbox is
\* an object of its own
AliasOf(k) ==
    IF last.origin[k] = 0
    THEN last.unmatchedDetections[CHOOSE n \in DOMAIN last.created :
                                      last.created[n] = Held[k].id]
    ELSE IF MatchedTrack(last.origin[k])
    THEN last.matched[CHOOSE j \in DOMAIN last.matched :
                          last.matched[j][2] = last.origin[k]][1]
    ELSE 0

\* a track after the object b, held by detection di, has been changed to
\* moved; the entries of history are copies (tracker.ts:174, 213)
Rebound(track, k, di, moved) ==
    IF AliasOf(k) = di THEN [track EXCEPT !.bbox = moved] ELSE track

\* the caller's statement detections[di].bbox.x += d[1]; bbox.y += d[2]
\* after update(detections) has returned
MutateBox(di, d) ==
    /\ last.op = "update"
    /\ di \in DOMAIN last.dets
    /\ tracks' = [tracks EXCEPT ![last.inst] =
                     [k \in DOMAIN @ |->
                         Rebound(@[k], k, di, Shifted(last.dets[di].bbox, d))]]
    /\ last' = [last EXCEPT !.op = "mutate",
                            !.pre = tracks[last.inst],
                            !.dets[di].bbox = Shifted(@, d)]
    /\ UNCHANGED <<nextTrackId, config, log, solo, probe, det, dlast>>

InitAlias ==
    /\ InitCommon
    /\ \E p \in InitConfigs : config = [i \in Trackers |-> Construct(p)]
    /\ last = NoUpdate("new", 1, config[1])

AliasFrame ==
    /\ Len(log) < MaxAliasFrames
    /\ \E f \in Frames : DoUpdate(1, f)

AliasMutate == \E di \in 1..2, d \in AliasMoves : MutateBox(di, d)

NextAlias == AliasFrame \/ AliasMutate

SpecAlias == InitAlias /\ [][NextAlias]_vars

\* C15: no track's bbox and no history entry is the bbox object of a
\* detection passed to update(), so changing a detection's bbox after the
\* call changes nothing in the tracks
C15_NoAliasing == last.op = "mutate" => tracks[last.inst] = last.pre

---------------------------------------------------------------------------
(* Frames and masks of the detectors                                       *)
(*                                                                         *)
(* A frame is the ImageData drawn from the input: width, height and one    *)
(* grey level (0..255) per pixel, the red, green and blue channels being   *)
(* equal.  Pixel (x, y) is entry y * width + x + 1 of data, the code's     *)
(* index y * width + x.  Detector boxes and areas count pixels.            *)

Abs(a) == IF a < 0 THEN -a ELSE a

\* new Uint8Array(n) or new Float32Array(n) with the entries a loop gave
\* it: the sequence of the values of f
Array(f) == f \o <<>>

\* previousFrame === null
NoFrame == [width |-> 0, height |-> 0, data |-> <<>>]

\* a frame that is level inside the columns xs and rows ys, 0 elsewhere
Block(w, h, xs, ys, level) ==
    [width |-> w, height |-> h,
     data |-> Array([i \in 1..(w * h) |->
                  IF ((i - 1) % w) \in xs /\ ((i - 1) \div w) \in ys
                  THEN level ELSE 0])]

\* the loop bounds of erode and dilate: radius <= x < width - radius, and
\* the same for y
Interior(w, h, x, y, radius) ==
    /\ x >= radius
    /\ x < w - radius
    /\ y >= radius
    /\ y < h - radius

\* count, summed over the (2 radius + 1)^2 neighbours of an interior pixel
NeighbourCount(mask, w, x, y, radius) ==
    Cardinality({d \in (-radius..radius) \X (-radius..radius) :
                    mask[(y + d[2]) * w + (x + d[1]) + 1] = 1})

\* a faulty variant of erode that keeps a pixel only when all of its
\* neighbours are set
erodeAll(mask, w, h, radius, minNeighbors) ==
    Array([i \in 1..(w * h) |->
        IF /\ Interior(w, h, (i - 1) % w, (i - 1) \div w, radius)
           /\ NeighbourCount(mask, w, (i - 1) % w, (i - 1) \div w, radius)
                  >= (2 * radius + 1) * (2 * radius + 1)
        THEN 1 ELSE 0])

\* erode (saliency-detector.ts:461-487; the first pass of
\* morphologicalClean in part_002:669-684 with radius 1)
erode(mask, w, h, radius, minNeighbors) ==
    Array([i \in 1..(w * h) |->
        IF /\ Interior(w, h, (i - 1) % w, (i - 1) \div w, radius)
           /\ NeighbourCount(mask, w, (i - 1) % w, (i - 1) \div w, radius)
                  >= minNeighbors
        THEN 1 ELSE 0])

\* dilate (saliency-detector.ts:489-512; the second pass of
\* morphologicalClean in part_002:687-701 with radius 1): a pixel is set
\* when an interior pixel within radius of it is set in mask
dilate(mask, w, h, radius) ==
    Array([i \in 1..(w * h) |->
        IF \E d \in (-radius..radius) \X (-radius..radius) :
               /\ Interior(w, h, ((i - 1) % w) - d[1], ((i - 1) \div w) - d[2],
                           radius)
               /\ mask[(((i - 1) \div w) - d[2]) * w
                           + (((i - 1) % w) - d[1]) + 1] = 1
        THEN 1 ELSE 0])

\* the sum of f[lo], ..., f[hi]
RECURSIVE SumRange(_, _, _)
SumRange(f, lo, hi) == IF lo > hi THEN 0 ELSE f[hi] + SumRange(f, lo, hi - 1)

\* entries i and j of a mask of width w are 4-connected neighbours
Adjacent(w, i, j) ==
    \/ j = i + w
    \/ j = i - w
    \/ j = i + 1 /\ (i - 1) % w # w - 1
    \/ j = i - 1 /\ (i - 1) % w # 0

\* the entries the loop of floodFill takes when started with the stack
\* holding the entries of region: every set entry reached through set
\* 4-connected neighbours (pushed at part_002:779, taken at part_002:770)
RECURSIVE Reached(_, _, _, _)
Reached(mask, w, region, grown) ==
    IF grown = region THEN region
    ELSE Reached(mask, w, grown,
                 grown \cup {j \in UNION {{i + w, i - w, i + 1, i - 1} :
                                             i \in grown \ region} :
                                /\ j \in DOMAIN mask
                                /\ mask[j] = 1
                                /\ \E i \in grown \ region : Adjacent(w, i, j)})

\* floodFill (part_002:750-783, motion-detection.ts:226-262,
\* saliency-detector.ts:596-673) started at a set entry seed: the extent,
\* the area and the coordinate sums of the entries it takes (pixels)
FillOf(w, h, pixels) ==
    [minX |-> CHOOSE x \in 0..(w - 1) :
                 /\ \E p \in pixels : (p - 1) % w = x
                 /\ \A p \in pixels : (p - 1) % w >= x,
     maxX |-> CHOOSE x \in 0..(w - 1) :
                 /\ \E p \in pixels : (p - 1) % w = x
                 /\ \A p \in pixels : (p - 1) % w <= x,
     minY |-> CHOOSE y \in 0..(h - 1) :
                 /\ \E p \in pixels : (p - 1) \div w = y
                 /\ \A p \in pixels : (p - 1) \div w >= y,
     maxY |-> CHOOSE y \in 0..(h - 1) :
                 /\ \E p \in pixels : (p - 1) \div w = y
                 /\ \A p \in pixels : (p - 1) \div w <= y,
     area |-> Cardinality(pixels),
     sumX |-> SumRange([x \in 0..(w - 1) |->
                           x * Cardinality({p \in pixels : (p - 1) % w = x})],
                       0, w - 1),
     sumY |-> SumRange([y \in 0..(h - 1) |->
                           y * Cardinality({p \in pixels : (p - 1) \div w = y})],
                       0, h - 1),
     pixels |-> pixels]

floodFill(mask, w, h, seed) == FillOf(w, h, Reached(mask, w, {}, {seed}))

\* the first entry, in the order of the scan loops (y outer, x inner), that
\* is set in mask and not visited; 0 when there is none
NextSeed(mask, visited) ==
    IF \E i \in DOMAIN mask : mask[i] = 1 /\ i \notin visited
    THEN CHOOSE i \in DOMAIN mask :
             /\ mask[i] = 1
             /\ i \notin visited
             /\ \A j \in 1..(i - 1) : mask[j] = 0 \/ j \in visited
    ELSE 0

\* the scan loops of findBlobs and findSalientRegions: the flood fills of
\* the connected regions of mask, in the order in which the scan meets them
RECURSIVE FillsFrom(_, _, _, _, _, _)
FillsWith(mask, w, h, visited, fill, fills) ==
    FillsFrom(mask, w, h, visited \cup fill.pixels,
              NextSeed(mask, visited \cup fill.pixels), Append(fills, fill))

FillsFrom(mask, w, h, visited, seed, fills) ==
    IF seed = 0 THEN fills
    ELSE FillsWith(mask, w, h, visited, floodFill(mask, w, h, seed), fills)

Fills(mask, w, h) == FillsFrom(mask, w, h, {}, NextSeed(mask, {}), <<>>)

---------------------------------------------------------------------------
(* MotionDetector of src/unnamed/part_002:517-888 (frame differencing) *)

\* the size of a canvas made by document.createElement("canvas")
NewCanvas == [width |-> 300, height |-> 150]

\* the constructor's defaults (part_002:563-566)
MD_DEFAULTS ==
    [threshold |-> 25, minBlobArea |-> 500, minFramesSeen |-> 2, maxBlobAge |-> 5]

\* new MotionDetector(options) (part_002:555-573)
MD_Construct(options) ==
    [kind |-> "motion",
     canvas |-> NewCanvas,
     previousFrame |-> NoFrame,
     frameCount |-> 0,
     activeBlobs |-> <<>>,
     blobIdCounter |-> 0,
     config |-> Merge(MD_DEFAULTS, options)]

\* getMotionMask (part_002:633-658); for grey frames the largest channel
\* difference is the difference of the levels
MD_getMotionMask(currentFrame, previousFrame, threshold) ==
    Array([i \in 1..(currentFrame.width * currentFrame.height) |->
        IF Abs(currentFrame.data[i] - previousFrame.data[i]) > threshold
        THEN 1 ELSE 0])

\* morphologicalClean (part_002:663-704)
MD_morphologicalClean(mask, w, h) == dilate(erode(mask, w, h, 1, 5), w, h, 1)

\* the MotionBlob pushed at part_002:724-738; the centre is doubled so that
\* (maxX - minX) / 2 stays an integer
MD_Blob(fill, frameCount) ==
    [bbox |-> [x |-> fill.minX, y |-> fill.minY,
               width |-> fill.maxX - fill.minX,
               height |-> fill.maxY - fill.minY],
     area |-> fill.area,
     centerX2 |-> fill.minX + fill.maxX,
     centerY2 |-> fill.minY + fill.maxY,
     framesSeen |-> 1,
     lastSeen |-> frameCount]

\* findBlobs (part_002:709-745)
MD_BlobsOf(fills, minBlobArea, frameCount) ==
    [k \in DOMAIN SelectSeq(fills, LAMBDA f : f.area >= minBlobArea) |->
        MD_Blob(SelectSeq(fills, LAMBDA f : f.area >= minBlobArea)[k], frameCount)]

MD_findBlobs(mask, w, h, minBlobArea, frameCount) ==
    MD_BlobsOf(Fills(mask, w, h), minBlobArea, frameCount)

\* twice the distance of the centres of two blobs, squared
MD_DistanceSq(newBlob, existingBlob) ==
    (newBlob.centerX2 - existingBlob.centerX2)
        * (newBlob.centerX2 - existingBlob.centerX2)
    + (newBlob.centerY2 - existingBlob.centerY2)
        * (newBlob.centerY2 - existingBlob.centerY2)

\* distance < maxDistance (part_002:803-804)
MD_Close(newBlob, existingBlob) ==
    MD_DistanceSq(newBlob, existingBlob)
        < (2 * Max(existingBlob.bbox.width, existingBlob.bbox.height))
              * (2 * Max(existingBlob.bbox.width, existingBlob.bbox.height))

\* the inner loop of part_002:797-808: the position in activeBlobs of the
\* closest blob that is close enough, the first of them in the order of the
\* Map when several are as close; 0 for bestMatch === null
MD_BestMatch(activeBlobs, newBlob) ==
    IF \E k \in DOMAIN activeBlobs : MD_Close(newBlob, activeBlobs[k])
    THEN CHOOSE k \in DOMAIN activeBlobs :
             /\ MD_Close(newBlob, activeBlobs[k])
             /\ \A j \in DOMAIN activeBlobs :
                   MD_Close(newBlob, activeBlobs[j]) =>
                       \/ MD_DistanceSq(newBlob, activeBlobs[k])
                              < MD_DistanceSq(newBlob, activeBlobs[j])
                       \/ /\ MD_DistanceSq(newBlob, activeBlobs[k])
                                 = MD_DistanceSq(newBlob, activeBlobs[j])
                          /\ k <= j
    ELSE 0

\* part_002:811-818: the tracked blob takes the new blob
MD_Matched(existing, newBlob, frameCount) ==
    [existing EXCEPT !.bbox = newBlob.bbox,
                     !.centerX2 = newBlob.centerX2,
                     !.centerY2 = newBlob.centerY2,
                     !.area = newBlob.area,
                     !.framesSeen = @ + 1,
                     !.lastSeen = frameCount]

\* part_002:822-826: the entry set for a new blob; id n stands for `blob_n`
MD_Created(id, newBlob, frameCount) ==
    [id |-> id,
     bbox |-> newBlob.bbox,
     area |-> newBlob.area,
     centerX2 |-> newBlob.centerX2,
     centerY2 |-> newBlob.centerY2,
     framesSeen |-> newBlob.framesSeen,
     lastSeen |-> frameCount]

\* one turn of the loop of part_002:792-829, best being the bestMatch found
MD_TrackOne(st, newBlob, frameCount, best) ==
    IF best # 0
    THEN [activeBlobs |-> [st.activeBlobs EXCEPT
                              ![best] = MD_Matched(@, newBlob, frameCount)],
          blobIdCounter |-> st.blobIdCounter,
          matchedIds |-> st.matchedIds \cup {st.activeBlobs[best].id},
          createdIds |-> st.createdIds]
    ELSE [activeBlobs |-> Append(st.activeBlobs,
                                 MD_Created(st.blobIdCounter, newBlob, frameCount)),
          blobIdCounter |-> st.blobIdCounter + 1,
          matchedIds |-> st.matchedIds \cup {st.blobIdCounter},
          createdIds |-> st.createdIds \cup {st.blobIdCounter}]

\* the loop of part_002:792-829 over the new blobs
RECURSIVE MD_TrackAll(_, _, _)
MD_TrackAll(st, newBlobs, frameCount) ==
    IF newBlobs = <<>> THEN st
    ELSE MD_TrackAll(MD_TrackOne(st, Head(newBlobs), frameCount,
                                 MD_BestMatch(st.activeBlobs, Head(newBlobs))),
                     Tail(newBlobs), frameCount)

\* a faulty variant of MD_RemoveOld that removes a blob as old as maxBlobAge
MD_RemoveOldInclusive(st, frameCount, maxBlobAge) ==
    [st EXCEPT !.activeBlobs =
        SelectSeq(@, LAMBDA b : ~(frameCount - b.lastSeen >= maxBlobAge))]

\* the loop of part_002:832-837
MD_RemoveOld(st, frameCount, maxBlobAge) ==
    [st EXCEPT !.activeBlobs =
        SelectSeq(@, LAMBDA b : ~(frameCount - b.lastSeen > maxBlobAge))]

\* updateBlobTracking (part_002:789-838); createdIds are the ids it set
MD_updateBlobTracking(activeBlobs, blobIdCounter, newBlobs, frameCount, maxBlobAge) ==
    MD_RemoveOld(MD_TrackAll([activeBlobs |-> activeBlobs,
                              blobIdCounter |-> blobIdCounter,
                              matchedIds |-> {}, createdIds |-> {}],
                             newBlobs, frameCount),
                 frameCount, maxBlobAge)

\* the blobs that pass the test of part_002:848
MD_Confirmed(activeBlobs, minFramesSeen) ==
    SelectSeq(activeBlobs, LAMBDA b : b.framesSeen >= minFramesSeen)

\* the score of part_002:850-852, in 1/ScoreScale
MD_Score(blob) ==
    RoundDiv((Min(10000, blob.area) + 1000 * Min(10, blob.framesSeen)) * ScoreScale,
             20000)

\* getConfirmedDetections (part_002:843-863)
MD_getConfirmedDetections(activeBlobs, minFramesSeen) ==
    [k \in DOMAIN MD_Confirmed(activeBlobs, minFramesSeen) |->
        Det(MD_Confirmed(activeBlobs, minFramesSeen)[k].bbox, "motion",
            MD_Score(MD_Confirmed(activeBlobs, minFramesSeen)[k]))]

\* what detect() did: the detector it leaves, the list it returns, the
\* return statement it left by, and for a processed frame the ids matched,
\* created and emitted
Outcome(d, ret, path, matchedIds, createdIds, emitted) ==
    [det |-> d, ret |-> ret, path |-> path, matchedIds |-> matchedIds,
     createdIds |-> createdIds, emitted |-> emitted]

\* the canvas has the size of the frame
SameSize(canvas, frame) ==
    canvas.width = frame.width /\ canvas.height = frame.height

\* a faulty variant of MD_Resize that keeps the tracked blobs
MD_ResizeKeepBlobs(d, frame) ==
    IF ~SameSize(d.canvas, frame)
    THEN [d EXCEPT !.canvas = [width |-> frame.width, height |-> frame.height],
                   !.previousFrame = NoFrame]
    ELSE d

\* part_002:589-594: the canvas takes the size of the frame
MD_Resize(d, frame) ==
    IF ~SameSize(d.canvas, frame)
    THEN [d EXCEPT !.canvas = [width |-> frame.width, height |-> frame.height],
                   !.previousFrame = NoFrame,
                   !.activeBlobs = <<>>]
    ELSE d

\* part_002:617-626, t being what updateBlobTracking left
MD_Finish(d, frame, t) ==
    Outcome([d EXCEPT !.activeBlobs = t.activeBlobs,
                      !.blobIdCounter = t.blobIdCounter,
                      !.previousFrame = frame,
                      !.frameCount = @ + 1],
            MD_getConfirmedDetections(t.activeBlobs, d.config.minFramesSeen),
            "processed", t.matchedIds, t.createdIds,
            {b.id : b \in {MD_Confirmed(t.activeBlobs, d.config.minFramesSeen)[k] :
                     k \in DOMAIN MD_Confirmed(t.activeBlobs, d.config.minFramesSeen)}})

\* a faulty variant of MD_detectSized that does not keep the first frame
MD_detectSizedUnseeded(d, frame) ==
    IF d.previousFrame = NoFrame
    THEN Outcome([d EXCEPT !.frameCount = 1], <<>>, "first", {}, {}, {})
    ELSE MD_Finish(d, frame,
             MD_updateBlobTracking(
                 d.activeBlobs, d.blobIdCounter,
                 MD_findBlobs(
                     MD_morphologicalClean(
                         MD_getMotionMask(frame, d.previousFrame, d.config.threshold),
                         frame.width, frame.height),
                     frame.width, frame.height, d.config.minBlobArea, d.frameCount),
                 d.frameCount, d.config.maxBlobAge))

\* part_002:596-626, the canvas having the size of the frame
MD_detectSized(d, frame) ==
    IF d.previousFrame = NoFrame
    THEN Outcome([d EXCEPT !.previousFrame = frame, !.frameCount = 1],
                 <<>>, "first", {}, {}, {})
    ELSE MD_Finish(d, frame,
             MD_updateBlobTracking(
                 d.activeBlobs, d.blobIdCounter,
                 MD_findBlobs(
                     MD_morphologicalClean(
                         MD_getMotionMask(frame, d.previousFrame, d.config.threshold),
                         frame.width, frame.height),
                     frame.width, frame.height, d.config.minBlobArea, d.frameCount),
                 d.frameCount, d.config.maxBlobAge))

\* a faulty variant of MD_detect that sizes the canvas before it looks at
\* the size of the frame
MD_detectResizeFirst(d, frame) ==
    IF frame.width = 0 \/ frame.height = 0
    THEN Outcome(MD_Resize(d, frame), <<>>, "empty", {}, {}, {})
    ELSE MD_detectSized(MD_Resize(d, frame), frame)

\* detect (part_002:578-627)
MD_detect(d, frame) ==
    IF frame.width = 0 \/ frame.height = 0
    THEN Outcome(d, <<>>, "empty", {}, {}, {})
    ELSE MD_detectSized(MD_Resize(d, frame), frame)

\* reset (part_002:868-872)
MD_reset(d) ==
    [d EXCEPT !.previousFrame = NoFrame, !.activeBlobs = <<>>, !.frameCount = 0]

\* setConfig (part_002:877-887): the options given replace the fields
MD_setConfig(d, options) == [d EXCEPT !.config = Merge(@, options)]

---------------------------------------------------------------------------
(* MotionDetector of src/src/lib/tracking/motion-detection.ts (background  *)
(* subtraction); learningRate counts 1/100                                 *)

\* the constructor's defaults (motion-detection.ts:34-36)
BG_DEFAULTS == [threshold |-> 30, minBlobArea |-> 500, learningRate |-> 1]

\* new MotionDetector(options) (motion-detection.ts:26-51); canvas and
\* backgroundCanvas always have the same size
BG_Construct(options) ==
    [kind |-> "background",
     canvas |-> NewCanvas,
     previousFrame |-> NoFrame,
     backgroundModel |-> NoFrame,
     frameCount |-> 0,
     config |-> Merge(BG_DEFAULTS, options)]

\* the value a Uint8ClampedArray keeps when num / den (den > 0) is stored:
\* the nearest integer, the even one of two equally near, within 0..255
ToUint8Clamped(num, den) ==
    LET q == num \div den
        r == num % den
    IN  Max(0, Min(255, IF 2 * r < den THEN q
                        ELSE IF 2 * r > den THEN q + 1
                        ELSE IF q % 2 = 0 THEN q ELSE q + 1))

\* updateBackgroundModel (motion-detection.ts:108-120)
BG_updateBackgroundModel(backgroundModel, currentFrame, lr) ==
    [backgroundModel EXCEPT !.data =
        Array([i \in DOMAIN @ |->
            ToUint8Clamped(@[i] * (100 - lr) + currentFrame.data[i] * lr, 100)])]

\* getForegroundMask (motion-detection.ts:125-148), whose
\* morphologicalClean (motion-detection.ts:153-177) is one erosion pass
BG_getForegroundMask(currentFrame, backgroundModel, threshold) ==
    erode(Array([i \in 1..(currentFrame.width * currentFrame.height) |->
              IF Abs(currentFrame.data[i] - backgroundModel.data[i]) > threshold
              THEN 1 ELSE 0]),
          currentFrame.width, currentFrame.height, 1, 5)

\* the Detection pushed at motion-detection.ts:196-210
BG_Detection(fill) ==
    Det([x |-> fill.minX, y |-> fill.minY,
         width |-> fill.maxX - fill.minX, height |-> fill.maxY - fill.minY],
        "motion",
        Min(ScoreScale, RoundDiv(fill.area * ScoreScale, 5000)))

\* findBlobs (motion-detection.ts:182-221)
BG_DetectionsOf(fills, minBlobArea) ==
    [k \in DOMAIN SelectSeq(fills, LAMBDA f : f.area >= minBlobArea) |->
        BG_Detection(SelectSeq(fills, LAMBDA f : f.area >= minBlobArea)[k])]

BG_findBlobs(mask, w, h, minBlobArea) ==
    BG_DetectionsOf(Fills(mask, w, h), minBlobArea)

\* motion-detection.ts:66-73: the canvases take the size of the frame
BG_Resize(d, frame) ==
    IF ~SameSize(d.canvas, frame)
    THEN [d EXCEPT !.canvas = [width |-> frame.width, height |-> frame.height],
                   !.backgroundModel = NoFrame,
                   !.previousFrame = NoFrame]
    ELSE d

\* motion-detection.ts:91-103, bg being the background model just updated
BG_Finish(d, frame, bg) ==
    Outcome([d EXCEPT !.backgroundModel = bg,
                      !.previousFrame = frame,
                      !.frameCount = @ + 1],
            BG_findBlobs(BG_getForegroundMask(frame, bg, d.config.threshold),
                         frame.width, frame.height, d.config.minBlobArea),
            "processed", {}, {}, {})

\* motion-detection.ts:75-103, the canvases having the size of the frame
BG_detectSized(d, frame) ==
    IF d.backgroundModel = NoFrame
    THEN Outcome([d EXCEPT !.backgroundModel = frame,
                           !.previousFrame = frame,
                           !.frameCount = 1],
                 <<>>, "first", {}, {}, {})
    ELSE BG_Finish(d, frame,
                   BG_updateBackgroundModel(d.backgroundModel, frame,
                                            d.config.learningRate))

\* detect (motion-detection.ts:56-103)
BG_detect(d, frame) ==
    IF frame.width = 0 \/ frame.height = 0
    THEN Outcome(d, <<>>, "empty", {}, {}, {})
    ELSE BG_detectSized(BG_Resize(d, frame), frame)

\* reset (motion-detection.ts:267-271)
BG_reset(d) ==
    [d EXCEPT !.backgroundModel = NoFrame, !.previousFrame = NoFrame,
              !.frameCount = 0]

\* setConfig (motion-detection.ts:276-285)
BG_setConfig(d, options) == [d EXCEPT !.config = Merge(@, options)]

---------------------------------------------------------------------------
(* SaliencyDetector of src/src/lib/tracking/saliency-detector.ts           *)
(*                                                                         *)
(* Luminance counts grey levels; the scene statistics count 1/LumScale     *)
(* level; the saliency maps and the scores count 1/ScoreScale; the weights *)
(* count 1/100; region centres and velocities count 1/Scale pixel.         *)

\* units per grey level of the scene statistics
LumScale == 1000

\* DEFAULT_CONFIG (saliency-detector.ts:65-79)
SD_DEFAULT_CONFIG ==
    [motionThreshold |-> 25, motionWeight |-> 40,
     luminanceThreshold |-> 200, luminanceWeight |-> 30,
     adaptiveLuminance |-> TRUE,
     gradientThreshold |-> 50, gradientWeight |-> 15,
     flickerThreshold |-> 40, flickerWeight |-> 15,
     flickerWindowSize |-> 5,
     minBlobArea |-> 150, mergeDistance |-> 60, bufferSize |-> 4]

\* new SaliencyDetector(options) (saliency-detector.ts:85-111)
SD_Construct(options) ==
    [kind |-> "saliency",
     canvas |-> NewCanvas,
     frameBuffer |-> <<>>,
     luminanceBuffer |-> <<>>,
     frameCount |-> 0,
     trackedSaliency |-> <<>>,
     nextId |-> 1,
     sceneMeanLuminance |-> 128 * LumScale,
     sceneStdLuminance |-> 50 * LumScale,
     config |-> Merge(SD_DEFAULT_CONFIG, options)]

\* computeLuminance (saliency-detector.ts:215-229): the BT.709 weights add
\* up to 1, so a grey pixel has its level as luminance
SD_computeLuminance(frame) == frame.data

\* the entries 0, 8, 16, ... sampled at saliency-detector.ts:240
SD_Samples(luminance) == {i \in DOMAIN luminance : (i - 1) % 8 = 0}

\* n times the sum of squares minus the square of the sum of the values
\* v[1..n]: n * n times their variance
SD_Spread(v, n) ==
    n * SumRange([k \in 1..n |-> v[k] * v[k]], 1, n)
        - SumRange(v, 1, n) * SumRange(v, 1, n)

\* the samples in the order of the loop
SD_SampleSeq(luminance) ==
    [k \in 1..Cardinality(SD_Samples(luminance)) |-> luminance[8 * (k - 1) + 1]]

\* mean and std of saliency-detector.ts:246-248, in 1/LumScale
SD_Mean(v, n) == RoundDiv(SumRange(v, 1, n) * LumScale, n)
SD_Std(v, n) == RoundDiv(Sqrt(Max(0, SD_Spread(v, n)) * 100) * (LumScale \div 10), n)

\* updateSceneStats (saliency-detector.ts:234-254)
SD_updateSceneStats(d, luminance) ==
    [d EXCEPT
        !.sceneMeanLuminance =
            RoundDiv(9 * @ + SD_Mean(SD_SampleSeq(luminance),
                                     Cardinality(SD_Samples(luminance))), 10),
        !.sceneStdLuminance =
            RoundDiv(9 * @ + SD_Std(SD_SampleSeq(luminance),
                                    Cardinality(SD_Samples(luminance))), 10)]

\* computeMotionMap (saliency-detector.ts:259-291); for grey frames the
\* weighted colour difference is the difference of the levels
SD_Diff(frames, f, i, motionThreshold) ==
    IF Abs(frames[f].data[i] - frames[f - 1].data[i]) > motionThreshold
    THEN Abs(frames[f].data[i] - frames[f - 1].data[i])
    ELSE 0

SD_computeMotionMap(frames, w, h, motionThreshold) ==
    Array([i \in 1..(w * h) |->
        Min(ScoreScale,
            RoundDiv(SumRange([f \in 2..Len(frames) |->
                                  SD_Diff(frames, f, i, motionThreshold)],
                              2, Len(frames)) * ScoreScale,
                     255 * (Len(frames) - 1)))])

\* the threshold of saliency-detector.ts:304-306, in 1/LumScale
SD_LuminanceThreshold(d) ==
    IF d.config.adaptiveLuminance
    THEN Min(250 * LumScale,
             d.sceneMeanLuminance + (3 * d.sceneStdLuminance) \div 2)
    ELSE d.config.luminanceThreshold * LumScale

\* computeLuminanceMap (saliency-detector.ts:296-316)
SD_computeLuminanceMap(luminance, threshold) ==
    Array([i \in DOMAIN luminance |->
        IF luminance[i] * LumScale > threshold
        THEN Min(ScoreScale,
                 RoundDiv((luminance[i] * LumScale - threshold) * 3 * (ScoreScale \div 2),
                          255 * LumScale - threshold))
        ELSE 0])

\* the Sobel gradients of saliency-detector.ts:338-349 at an interior pixel
SD_Gx(l, w, x, y) ==
    - l[(y - 1) * w + (x - 1) + 1] + l[(y - 1) * w + (x + 1) + 1]
    - 2 * l[y * w + (x - 1) + 1] + 2 * l[y * w + (x + 1) + 1]
    - l[(y + 1) * w + (x - 1) + 1] + l[(y + 1) * w + (x + 1) + 1]

SD_Gy(l, w, x, y) ==
    - l[(y - 1) * w + (x - 1) + 1] - 2 * l[(y - 1) * w + x + 1]
    - l[(y - 1) * w + (x + 1) + 1] + l[(y + 1) * w + (x - 1) + 1]
    + 2 * l[(y + 1) * w + x + 1] + l[(y + 1) * w + (x + 1) + 1]

\* saliency-detector.ts:352-356, from the squared magnitude
SD_GradientOf(magSq, gradientThreshold) ==
    IF gradientThreshold < 0 \/ magSq > gradientThreshold * gradientThreshold
    THEN Min(ScoreScale,
             RoundDiv(Max(0, Sqrt(magSq * 100) - 10 * gradientThreshold) * ScoreScale,
                      2000))
    ELSE 0

\* computeGradientMap (saliency-detector.ts:322-361)
SD_computeGradientMap(luminance, w, h, gradientThreshold) ==
    Array([i \in 1..(w * h) |->
        IF Interior(w, h, (i - 1) % w, (i - 1) \div w, 1)
        THEN SD_GradientOf(
                 SD_Gx(luminance, w, (i - 1) % w, (i - 1) \div w)
                     * SD_Gx(luminance, w, (i - 1) % w, (i - 1) \div w)
                 + SD_Gy(luminance, w, (i - 1) % w, (i - 1) \div w)
                     * SD_Gy(luminance, w, (i - 1) % w, (i - 1) \div w),
                 gradientThreshold)
        ELSE 0])

\* saliency-detector.ts:386-393, from spread = n * n times the variance
SD_FlickerOf(spread, n, flickerThreshold) ==
    IF flickerThreshold < 0 \/ spread > (flickerThreshold * n) * (flickerThreshold * n)
    THEN Min(ScoreScale,
             RoundDiv(Max(0, Sqrt(spread * 100) \div n - 10 * flickerThreshold)
                          * ScoreScale,
                      1000))
    ELSE 0

\* computeFlickerMap (saliency-detector.ts:367-397)
SD_computeFlickerMap(luminanceBuffer, w, h, flickerThreshold) ==
    Array([i \in 1..(w * h) |->
        IF Len(luminanceBuffer) < 2 THEN 0
        ELSE SD_FlickerOf(
                 Max(0, SD_Spread([f \in DOMAIN luminanceBuffer |->
                                      luminanceBuffer[f][i]],
                                  Len(luminanceBuffer))),
                 Len(luminanceBuffer), flickerThreshold)])

\* 0.15 ^ (1 / 0.8) = 0.0933499..., the level the weighted combination has
\* to pass for its power 0.8 to pass 0.15 (saliency-detector.ts:429, 446),
\* in 1/(ScoreScale * ScoreScale)
ActivationLevel == 93349

\* the weighted sum of saliency-detector.ts:422-426 at one pixel, times the
\* sum of the weights: in 1/(100 * ScoreScale)
SD_Weighted(cfg, m, l, g, f) ==
    m * cfg.motionWeight + l * cfg.luminanceWeight
        + g * cfg.gradientWeight + f * cfg.flickerWeight

\* totalWeight (saliency-detector.ts:414), in 1/100
SD_TotalWeight(cfg) ==
    cfg.motionWeight + cfg.luminanceWeight + cfg.gradientWeight + cfg.flickerWeight

\* fuseSaliencyMaps (saliency-detector.ts:402-433), before the power of
\* line 429: combined counts 1/(ScoreScale * ScoreScale); nan says that the
\* entry is NaN, as it is when the weights add up to 0 or combined < 0
SD_Fused(weighted, totalWeight) ==
    IF totalWeight = 0 THEN [nan |-> TRUE, combined |-> 0]
    ELSE IF (weighted > 0 /\ totalWeight < 0) \/ (weighted < 0 /\ totalWeight > 0)
    THEN [nan |-> TRUE, combined |-> 0]
    ELSE [nan |-> FALSE,
          combined |-> (Abs(weighted) * ScoreScale) \div Abs(totalWeight)]

SD_fuseSaliencyMaps(cfg, motion, luminance, gradient, flicker) ==
    Array([i \in DOMAIN motion |->
        SD_Fused(SD_Weighted(cfg, motion[i], luminance[i], gradient[i], flicker[i]),
                 SD_TotalWeight(cfg))])

\* Math.pow(combined, 0.8) > 0.15 (saliency-detector.ts:429, 445-448), that
\* is combined > 0.15 ^ 1.25 = 0.09335; false for NaN
SD_Active(fused) == ~fused.nan /\ fused.combined > ActivationLevel

\* morphologicalClean (saliency-detector.ts:438-459)
SD_morphologicalClean(fusedMap, w, h) ==
    dilate(dilate(erode(Array([i \in DOMAIN fusedMap |->
                            IF SD_Active(fusedMap[i]) THEN 1 ELSE 0]),
                        w, h, 2, 5),
                  w, h, 3),
           w, h, 2)

\* the sum of map over the entries of pixels, row by row
SD_SumOver(map, w, h, pixels) ==
    SumRange([y \in 0..(h - 1) |->
                 SumRange([x \in 0..(w - 1) |->
                              IF (y * w + x + 1) \in pixels
                              THEN map[y * w + x + 1] ELSE 0],
                          0, w - 1)],
             0, h - 1)

\* a faulty variant of SD_Type that takes 'flicker' only when the flicker
\* score is the largest
SD_TypeLargest(area, motionSum, luminanceSum, flickerSum) ==
    IF /\ flickerSum > 300 * area
       /\ flickerSum >= Max3(motionSum, luminanceSum, flickerSum)
    THEN "flicker"
    ELSE IF 2 * motionSum >= 3 * luminanceSum /\ motionSum > 200 * area
    THEN "motion"
    ELSE IF 2 * luminanceSum >= 3 * motionSum /\ luminanceSum > 200 * area
    THEN "light"
    ELSE "hybrid"

\* the classification of saliency-detector.ts:553-562 from the sums of the
\* cue maps over a region of the given area
SD_Type(area, motionSum, luminanceSum, flickerSum) ==
    IF /\ flickerSum > 300 * area
       /\ 10 * flickerSum >= 8 * Max3(motionSum, luminanceSum, flickerSum)
    THEN "flicker"
    ELSE IF 2 * motionSum >= 3 * luminanceSum /\ motionSum > 200 * area
    THEN "motion"
    ELSE IF 2 * luminanceSum >= 3 * motionSum /\ luminanceSum > 200 * area
    THEN "light"
    ELSE "hybrid"

\* the region pushed at saliency-detector.ts:564-587
SD_RegionWith(fill, frameCount, motionSum, luminanceSum, gradientSum, flickerSum) ==
    [id |-> 0,
     bbox |-> [x |-> fill.minX, y |-> fill.minY,
               width |-> fill.maxX - fill.minX,
               height |-> fill.maxY - fill.minY],
     centerX |-> RoundDiv(fill.sumX * Scale, fill.area),
     centerY |-> RoundDiv(fill.sumY * Scale, fill.area),
     velocityX |-> 0,
     velocityY |-> 0,
     area |-> fill.area,
     framesSeen |-> 1,
     lastSeen |-> frameCount,
     confidence |-> 0,
     trail |-> <<>>,
     motionScore |-> RoundDiv(motionSum, fill.area),
     luminanceScore |-> RoundDiv(luminanceSum, fill.area),
     gradientScore |-> RoundDiv(gradientSum, fill.area),
     flickerScore |-> RoundDiv(flickerSum, fill.area),
     type |-> SD_Type(fill.area, motionSum, luminanceSum, flickerSum)]

SD_Region(fill, w, h, frameCount, maps) ==
    SD_RegionWith(fill, frameCount,
                  SD_SumOver(maps.motion, w, h, fill.pixels),
                  SD_SumOver(maps.luminance, w, h, fill.pixels),
                  SD_SumOver(maps.gradient, w, h, fill.pixels),
                  SD_SumOver(maps.flicker, w, h, fill.pixels))

\* findSalientRegions (saliency-detector.ts:517-594)
SD_RegionsOf(fills, w, h, minBlobArea, frameCount, maps) ==
    [k \in DOMAIN SelectSeq(fills, LAMBDA f : f.area >= minBlobArea) |->
        SD_Region(SelectSeq(fills, LAMBDA f : f.area >= minBlobArea)[k],
                  w, h, frameCount, maps)]

SD_findSalientRegions(mask, w, h, minBlobArea, frameCount, maps) ==
    SD_RegionsOf(Fills(mask, w, h), w, h, minBlobArea, frameCount, maps)

\* distance < limit for centres in 1/Scale pixel and a limit in pixels
SD_Within(dx, dy, limit) ==
    limit > 0 /\ dx * dx + dy * dy < (limit * Scale) * (limit * Scale)

\* faulty variant of SD_Absorb: the bbox and the area of other are left out
SD_AbsorbCentre(current, other) ==
    [current EXCEPT
        !.centerX = ((Min(current.bbox.x, other.bbox.x)
                      + Max(current.bbox.x + current.bbox.width,
                            other.bbox.x + other.bbox.width)) * Scale) \div 2,
        !.centerY = ((Min(current.bbox.y, other.bbox.y)
                      + Max(current.bbox.y + current.bbox.height,
                            other.bbox.y + other.bbox.height)) * Scale) \div 2]

\* saliency-detector.ts:704-726: current takes other in
SD_Absorb(current, other) ==
    [current EXCEPT
        !.bbox = [x |-> Min(current.bbox.x, other.bbox.x),
                  y |-> Min(current.bbox.y, other.bbox.y),
                  width |-> Max(current.bbox.x + current.bbox.width,
                                other.bbox.x + other.bbox.width)
                            - Min(current.bbox.x, other.bbox.x),
                  height |-> Max(current.bbox.y + current.bbox.height,
                                 other.bbox.y + other.bbox.height)
                             - Min(current.bbox.y, other.bbox.y)],
        !.centerX = ((Min(current.bbox.x, other.bbox.x)
                      + Max(current.bbox.x + current.bbox.width,
                            other.bbox.x + other.bbox.width)) * Scale) \div 2,
        !.centerY = ((Min(current.bbox.y, other.bbox.y)
                      + Max(current.bbox.y + current.bbox.height,
                            other.bbox.y + other.bbox.height)) * Scale) \div 2,
        !.area = current.area + other.area]

\* one pass of the loop over j (saliency-detector.ts:695-731), from j on
RECURSIVE SD_MergePass(_, _, _, _)
SD_MergePass(st, regions, mergeDistance, j) ==
    IF j > Len(regions) THEN st
    ELSE IF j \in st.used
            \/ ~SD_Within(st.current.centerX - regions[j].centerX,
                          st.current.centerY - regions[j].centerY, mergeDistance)
    THEN SD_MergePass(st, regions, mergeDistance, j + 1)
    ELSE SD_MergePass([current |-> SD_Absorb(st.current, regions[j]),
                       used |-> st.used \cup {j},
                       changed |-> TRUE],
                      regions, mergeDistance, j + 1)

\* the loop while (changed) (saliency-detector.ts:692-732)
RECURSIVE SD_MergeWhile(_, _, _)
SD_MergeWhile(st, regions, mergeDistance) ==
    IF ~st.changed THEN st
    ELSE SD_MergeWhile(SD_MergePass([st EXCEPT !.changed = FALSE],
                                    regions, mergeDistance, 1),
                       regions, mergeDistance)

\* the loop over i (saliency-detector.ts:686-735), from i on; grown is what
\* the loop while (changed) left for region i
SD_MergeStep(merged, used, grown) ==
    [merged |-> Append(merged, grown.current), used |-> grown.used]

RECURSIVE SD_MergeFrom(_, _, _, _, _)
SD_MergeFrom(merged, used, regions, mergeDistance, i) ==
    IF i > Len(regions) THEN merged
    ELSE IF i \in used
    THEN SD_MergeFrom(merged, used, regions, mergeDistance, i + 1)
    ELSE SD_MergeFrom(
             SD_MergeStep(merged, used,
                          SD_MergeWhile([current |-> regions[i],
                                         used |-> used \cup {i},
                                         changed |-> TRUE],
                                        regions, mergeDistance)).merged,
             SD_MergeStep(merged, used,
                          SD_MergeWhile([current |-> regions[i],
                                         used |-> used \cup {i},
                                         changed |-> TRUE],
                                        regions, mergeDistance)).used,
             regions, mergeDistance, i + 1)

\* mergeNearbyRegions (saliency-detector.ts:678-738)
SD_mergeNearbyRegions(regions, mergeDistance) ==
    IF Len(regions) <= 1 THEN regions
    ELSE SD_MergeFrom(<<>>, {}, regions, mergeDistance, 1)

\* the square of the distance of a region from where the track is predicted
\* (saliency-detector.ts:754-763), in 1/Scale pixel
SD_DistanceSq(tracked, region) ==
    (tracked.centerX + tracked.velocityX - region.centerX)
        * (tracked.centerX + tracked.velocityX - region.centerX)
    + (tracked.centerY + tracked.velocityY - region.centerY)
        * (tracked.centerY + tracked.velocityY - region.centerY)

\* distance < maxDistance (saliency-detector.ts:765-766)
SD_Close(tracked, region) ==
    SD_Within(tracked.centerX + tracked.velocityX - region.centerX,
              tracked.centerY + tracked.velocityY - region.centerY,
              Max3(tracked.bbox.width, tracked.bbox.height, 100))

\* the inner loop of saliency-detector.ts:757-770: the closest region not
\* yet matched that is close enough, the first of them when several are as
\* close; 0 for bestMatch = -1
SD_BestMatch(tracked, regions, matchedRegions) ==
    IF \E i \in DOMAIN regions :
           i \notin matchedRegions /\ SD_Close(tracked, regions[i])
    THEN CHOOSE i \in DOMAIN regions :
             /\ i \notin matchedRegions
             /\ SD_Close(tracked, regions[i])
             /\ \A j \in DOMAIN regions :
                   (j \notin matchedRegions /\ SD_Close(tracked, regions[j])) =>
                       \/ SD_DistanceSq(tracked, regions[i])
                              < SD_DistanceSq(tracked, regions[j])
                       \/ /\ SD_DistanceSq(tracked, regions[i])
                                 = SD_DistanceSq(tracked, regions[j])
                          /\ i <= j
    ELSE 0

\* the trail after a push (saliency-detector.ts:792-795)
SD_Pushed(trail, point) ==
    IF Len(trail) + 1 > 100 THEN Tail(Append(trail, point)) ELSE Append(trail, point)

\* saliency-detector.ts:775-795: the track takes the region
SD_Matched(tracked, region, frameCount) ==
    [tracked EXCEPT
        !.velocityX = region.centerX - tracked.centerX,
        !.velocityY = region.centerY - tracked.centerY,
        !.bbox = region.bbox,
        !.centerX = region.centerX,
        !.centerY = region.centerY,
        !.area = region.area,
        !.framesSeen = @ + 1,
        !.lastSeen = frameCount,
        !.confidence = Min(ScoreScale, RoundDiv((tracked.framesSeen + 1) * ScoreScale, 8)),
        !.motionScore = RoundDiv(7 * @ + 3 * region.motionScore, 10),
        !.luminanceScore = RoundDiv(7 * @ + 3 * region.luminanceScore, 10),
        !.gradientScore = RoundDiv(7 * @ + 3 * region.gradientScore, 10),
        !.flickerScore = RoundDiv(7 * @ + 3 * region.flickerScore, 10),
        !.type = region.type,
        !.trail = SD_Pushed(@, [x |-> region.centerX, y |-> region.centerY])]

\* the loop of saliency-detector.ts:750-800 over the tracks, from k on
SD_MatchOne(st, k, regions, frameCount, best) ==
    IF best = 0 THEN st
    ELSE [tracked |-> [st.tracked EXCEPT
                          ![k] = SD_Matched(@, regions[best], frameCount)],
          matchedRegions |-> st.matchedRegions \cup {best},
          matchedTracks |-> st.matchedTracks \cup {st.tracked[k].id}]

RECURSIVE SD_MatchFrom(_, _, _, _)
SD_MatchFrom(st, k, regions, frameCount) ==
    IF k > Len(st.tracked) THEN st
    ELSE SD_MatchFrom(SD_MatchOne(st, k, regions, frameCount,
                                  SD_BestMatch(st.tracked[k], regions,
                                               st.matchedRegions)),
                      k + 1, regions, frameCount)

\* the entry set at saliency-detector.ts:809-826
SD_Created(id, region, frameCount) ==
    [region EXCEPT !.id = id,
                   !.velocityX = 0,
                   !.velocityY = 0,
                   !.framesSeen = 1,
                   !.lastSeen = frameCount,
                   !.confidence = 0,
                   !.trail = <<[x |-> region.centerX, y |-> region.centerY]>>]

\* the loop of saliency-detector.ts:803-827 over the regions, from i on
RECURSIVE SD_CreateFrom(_, _, _, _, _)
SD_CreateFrom(tracked, nextId, i, regions, st) ==
    IF i > Len(regions) THEN [tracked |-> tracked, nextId |-> nextId]
    ELSE IF i \in st.matchedRegions
    THEN SD_CreateFrom(tracked, nextId, i + 1, regions, st)
    ELSE SD_CreateFrom(Append(tracked, SD_Created(nextId, regions[i], st.frameCount)),
                       nextId + 1, i + 1, regions, st)

\* faulty variant of SD_RemoveOld: a region goes at age 12
SD_RemoveOldInclusive(tracked, matchedTracks, frameCount) ==
    SelectSeq(tracked,
              LAMBDA t : ~(t.id \notin matchedTracks /\ frameCount - t.lastSeen >= 12))

\* the loop of saliency-detector.ts:830-837
SD_RemoveOld(tracked, matchedTracks, frameCount) ==
    SelectSeq(tracked,
              LAMBDA t : ~(t.id \notin matchedTracks /\ frameCount - t.lastSeen > 12))

\* updateTrackedSaliency (saliency-detector.ts:743-838), m being what the
\* matching loop left and c what the creating loop left
SD_Tracking(m, c, nextId, frameCount) ==
    [trackedSaliency |-> SD_RemoveOld(c.tracked, m.matchedTracks, frameCount),
     nextId |-> c.nextId,
     matchedIds |-> m.matchedTracks,
     createdIds |-> nextId..(c.nextId - 1)]

SD_TrackingAfter(m, regions, nextId, frameCount) ==
    SD_Tracking(m,
                SD_CreateFrom(m.tracked, nextId, 1, regions,
                              [matchedRegions |-> m.matchedRegions,
                               frameCount |-> frameCount]),
                nextId, frameCount)

SD_updateTrackedSaliency(trackedSaliency, nextId, regions, frameCount) ==
    SD_TrackingAfter(SD_MatchFrom([tracked |-> trackedSaliency,
                                   matchedRegions |-> {},
                                   matchedTracks |-> {}],
                                  1, regions, frameCount),
                     regions, nextId, frameCount)

\* a faulty variant of SD_Confirmed that takes a track seen once
SD_ConfirmedAtOnce(trackedSaliency) ==
    SelectSeq(trackedSaliency, LAMBDA t : t.framesSeen >= 1)

\* the tracks that pass the test of saliency-detector.ts:847
SD_Confirmed(trackedSaliency) ==
    SelectSeq(trackedSaliency, LAMBDA t : t.framesSeen >= 2)

\* the switch of saliency-detector.ts:850-863
SD_ClassName(type) ==
    CASE type = "motion" -> "motion"
      [] type = "light" -> "light"
      [] type = "flicker" -> "flash"
      [] OTHER -> "salient"

\* getConfirmedDetections (saliency-detector.ts:843-874)
SD_getConfirmedDetections(trackedSaliency) ==
    [k \in DOMAIN SD_Confirmed(trackedSaliency) |->
        Det(SD_Confirmed(trackedSaliency)[k].bbox,
            SD_ClassName(SD_Confirmed(trackedSaliency)[k].type),
            SD_Confirmed(trackedSaliency)[k].confidence)]

\* saliency-detector.ts:127-133: the canvas takes the size of the frame
SD_Resize(d, frame) ==
    IF ~SameSize(d.canvas, frame)
    THEN [d EXCEPT !.canvas = [width |-> frame.width, height |-> frame.height],
                   !.frameBuffer = <<>>,
                   !.luminanceBuffer = <<>>,
                   !.trackedSaliency = <<>>]
    ELSE d

\* saliency-detector.ts:146-152: the push and the single shift
SD_Buffered(buffer, entry, bufferSize) ==
    IF Len(buffer) + 1 > bufferSize THEN Tail(Append(buffer, entry))
    ELSE Append(buffer, entry)

SD_Push(d, frame, luminance) ==
    [d EXCEPT !.frameBuffer = SD_Buffered(@, frame, d.config.bufferSize),
              !.luminanceBuffer = SD_Buffered(@, luminance, d.config.bufferSize)]

\* the four maps of saliency-detector.ts:163-172
SD_Maps(d, w, h) ==
    [motion |-> SD_computeMotionMap(d.frameBuffer, w, h, d.config.motionThreshold),
     luminance |-> SD_computeLuminanceMap(
                       d.luminanceBuffer[Len(d.luminanceBuffer)],
                       SD_LuminanceThreshold(d)),
     gradient |-> SD_computeGradientMap(
                      d.luminanceBuffer[Len(d.luminanceBuffer)], w, h,
                      d.config.gradientThreshold),
     flicker |-> SD_computeFlickerMap(d.luminanceBuffer, w, h,
                                      d.config.flickerThreshold)]

\* saliency-detector.ts:175-199: the merged regions of the maps
SD_RegionsFrom(d, w, h, maps) ==
    SD_mergeNearbyRegions(
        SD_findSalientRegions(
            SD_morphologicalClean(
                SD_fuseSaliencyMaps(d.config, maps.motion, maps.luminance,
                                    maps.gradient, maps.flicker),
                w, h),
            w, h, d.config.minBlobArea, d.frameCount, maps),
        d.config.mergeDistance)

\* saliency-detector.ts:202-208, t being what updateTrackedSaliency left
SD_Finish(d, t) ==
    Outcome([d EXCEPT !.trackedSaliency = t.trackedSaliency,
                      !.nextId = t.nextId,
                      !.frameCount = @ + 1],
            SD_getConfirmedDetections(t.trackedSaliency),
            "processed", t.matchedIds, t.createdIds,
            {SD_Confirmed(t.trackedSaliency)[k].id :
                 k \in DOMAIN SD_Confirmed(t.trackedSaliency)})

\* saliency-detector.ts:154-208, the frame being in the buffers
SD_detectBuffered(d, w, h) ==
    IF Len(d.frameBuffer) < 2
    THEN Outcome([d EXCEPT !.frameCount = @ + 1], <<>>, "buffering", {}, {}, {})
    ELSE SD_Finish(d, SD_updateTrackedSaliency(
                          d.trackedSaliency, d.nextId,
                          SD_RegionsFrom(d, w, h, SD_Maps(d, w, h)),
                          d.frameCount))

\* detect (saliency-detector.ts:116-209)
SD_detect(d, frame) ==
    IF frame.width = 0 \/ frame.height = 0
    THEN Outcome(d, <<>>, "empty", {}, {}, {})
    ELSE SD_detectBuffered(
             SD_Push(SD_updateSceneStats(SD_Resize(d, frame),
                                         SD_computeLuminance(frame)),
                     frame, SD_computeLuminance(frame)),
             frame.width, frame.height)

\* reset (saliency-detector.ts:879-886)
SD_reset(d) ==
    [d EXCEPT !.frameBuffer = <<>>,
              !.luminanceBuffer = <<>>,
              !.trackedSaliency = <<>>,
              !.frameCount = 0,
              !.sceneMeanLuminance = 128 * LumScale,
              !.sceneStdLuminance = 50 * LumScale]

\* setConfig (saliency-detector.ts:891-893)
SD_setConfig(d, options) == [d EXCEPT !.config = Merge(@, options)]

---------------------------------------------------------------------------
(* SpecDet: one detector of any of the three classes, given frames, reset  *)
(* and reconfigured.  det is the detector object; dlast records the latest *)
(* call with the history the properties need.                              *)

\* the number of calls made on the detector
MaxDetOps == 4

\* detect, reset and setConfig of the class of d
DetectOf(d, frame) ==
    CASE d.kind = "motion" -> MD_detect(d, frame)
      [] d.kind = "background" -> BG_detect(d, frame)
      [] OTHER -> SD_detect(d, frame)

ResetOf(d) ==
    CASE d.kind = "motion" -> MD_reset(d)
      [] d.kind = "background" -> BG_reset(d)
      [] OTHER -> SD_reset(d)

SetConfigOf(d, options) ==
    CASE d.kind = "motion" -> MD_setConfig(d, options)
      [] d.kind = "background" -> BG_setConfig(d, options)
      [] OTHER -> SD_setConfig(d, options)

\* the frames given: 7 x 9 pictures (nothing; two bars), a 9 x 7 picture
\* (one block), and inputs that are not loaded yet (width 0; height 0)
DetBlank == Block(7, 9, {}, {}, 0)
DetBars == Block(7, 9, 0..6, {1, 2, 6, 7}, 255)
DetWide == Block(9, 7, 2..6, 2..4, 255)
DetNoWidth == Block(0, 9, {}, {}, 0)
DetNoHeight == Block(7, 0, {}, {}, 0)
DetFrames == {DetBlank, DetBars, DetWide, DetNoWidth, DetNoHeight}

\* the options the detectors are made with: regions of 4 pixels count, the
\* pictures being small
DetOptions == [minBlobArea |-> 4]

\* the detectors new X(DetOptions) makes
NewDetectors ==
    {MD_Construct(DetOptions), BG_Construct(DetOptions), SD_Construct(DetOptions)}

\* the options given to setConfig, by class
DetConfigChanges(d) ==
    CASE d.kind = "motion" -> {[minFramesSeen |-> 3]}
      [] d.kind = "background" -> {[learningRate |-> 50]}
      [] OTHER -> {[bufferSize |-> 1], [bufferSize |-> 0]}

\* width and height of the frame are not 0
Sized(frame) == frame.width # 0 /\ frame.height # 0

\* the frames a detector holds from earlier calls
History(d) ==
    CASE d.kind = "motion" ->
             IF d.previousFrame = NoFrame THEN <<>> ELSE <<d.previousFrame>>
      [] d.kind = "background" ->
             (IF d.backgroundModel = NoFrame THEN <<>> ELSE <<d.backgroundModel>>)
                 \o (IF d.previousFrame = NoFrame THEN <<>> ELSE <<d.previousFrame>>)
      [] OTHER -> d.frameBuffer

\* the ids of the regions a detector tracks
TrackedIds(d) ==
    CASE d.kind = "motion" -> {d.activeBlobs[k].id : k \in DOMAIN d.activeBlobs}
      [] d.kind = "background" -> {}
      [] OTHER -> {d.trackedSaliency[k].id : k \in DOMAIN d.trackedSaliency}

\* detect(frame) takes the branch that sizes the canvas anew
Flushing(d, frame) == Sized(frame) /\ ~SameSize(d.canvas, frame)

\* dlast before any call
NoCalls ==
    [op |-> "new", n |-> 0, frame |-> NoFrame, pre |-> Idle, ret |-> <<>>,
     path |-> "none", matchedIds |-> {}, createdIds |-> {}, emitted |-> {},
     calls |-> 0, sized |-> 0, seeded |-> Idle, before |-> NoFrame,
     resets |-> 0, dropped |-> {}, seen |-> <<>>, unseen |-> <<>>,
     gone |-> {}]

\* the number of calls of detect() that matched or created each blob
SeenAfter(seen, ids) ==
    [id \in (DOMAIN seen) \cup ids |->
        (IF id \in DOMAIN seen THEN seen[id] ELSE 0)
            + (IF id \in ids THEN 1 ELSE 0)]

\* for each region tracked during the call, the number of processed frames
\* in a row, this one included, that matched no region to it
UnseenAfter(unseen, pre, frame, r) ==
    IF r.path = "processed"
    THEN [id \in TrackedIds(pre) \cup r.createdIds |->
             IF id \in r.matchedIds \cup r.createdIds THEN 0 ELSE unseen[id] + 1]
    ELSE IF Flushing(pre, frame) THEN <<>>
    ELSE unseen

\* the blobs of a MotionDetector that went unmatched for more than
\* maxBlobAge processed frames in a row, the regions of a SaliencyDetector
\* that went unmatched for more than 12
Outlived(d, unseen) ==
    IF d.kind = "motion"
    THEN {id \in DOMAIN unseen : unseen[id] > d.config.maxBlobAge}
    ELSE IF d.kind = "saliency"
    THEN {id \in DOMAIN unseen : unseen[id] > 12}
    ELSE {}

\* dlast after detect(frame) on detector pre, r being what it did:
\*   frame, before  the frame of this call and of the call of detect before
\*   calls, sized   the calls of detect since construction or reset(), and
\*                  those of them with a frame of non-zero size
\*   seeded         the frame and the config of the first sized call
\*   resets         the calls of reset()
\*   dropped        the ids tracked when the canvas was sized anew
\*   seen           see SeenAfter
\*   unseen         see UnseenAfter
\*   gone           the ids that were ever in Outlived
AfterDetect(prev, pre, frame, r) ==
    [op |-> "detect", n |-> prev.n + 1, frame |-> frame, pre |-> pre,
     ret |-> r.ret, path |-> r.path, matchedIds |-> r.matchedIds,
     createdIds |-> r.createdIds, emitted |-> r.emitted,
     calls |-> prev.calls + 1,
     sized |-> prev.sized + (IF Sized(frame) THEN 1 ELSE 0),
     seeded |-> IF Sized(frame) /\ prev.sized = 0
                THEN [frame |-> frame, config |-> pre.config]
                ELSE prev.seeded,
     before |-> prev.frame,
     resets |-> prev.resets,
     dropped |-> prev.dropped
                     \cup (IF Flushing(pre, frame) THEN TrackedIds(pre) ELSE {}),
     seen |-> SeenAfter(prev.seen, r.matchedIds \cup r.createdIds),
     unseen |-> UnseenAfter(prev.unseen, pre, frame, r),
     gone |-> prev.gone
                  \cup Outlived(pre, UnseenAfter(prev.unseen, pre, frame, r))]

\* dlast after reset() or setConfig() on detector pre
AfterOther(prev, op, pre) ==
    [prev EXCEPT !.op = op, !.n = @ + 1, !.pre = pre, !.ret = <<>>,
                 !.path = "none", !.matchedIds = {}, !.createdIds = {},
                 !.emitted = {},
                 !.calls = IF op = "reset" THEN 0 ELSE @,
                 !.sized = IF op = "reset" THEN 0 ELSE @,
                 !.seeded = IF op = "reset" THEN Idle ELSE @,
                 !.resets = IF op = "reset" THEN @ + 1 ELSE @,
                 !.unseen = IF op = "reset" THEN <<>> ELSE @]

InitDet ==
    /\ InitNoTracker
    /\ probe = Idle
    /\ det \in NewDetectors
    /\ dlast = NoCalls

\* detector.detect(frame)
Detected(frame) ==
    \E r \in {DetectOf(det, frame)} :
        /\ det' = r.det
        /\ dlast' = AfterDetect(dlast, det, frame, r)
        /\ UNCHANGED <<trackerVars, probe>>

DoDetect ==
    /\ dlast.n < MaxDetOps
    /\ \E frame \in DetFrames : Detected(frame)

\* detector.reset()
DoDetReset ==
    /\ dlast.n < MaxDetOps
    /\ det' = ResetOf(det)
    /\ dlast' = AfterOther(dlast, "reset", det)
    /\ UNCHANGED <<trackerVars, probe>>

\* detector.setConfig(options)
DoDetSetConfig ==
    /\ dlast.n < MaxDetOps
    /\ \E options \in DetConfigChanges(det) :
          det' = SetConfigOf(det, options)
    /\ dlast' = AfterOther(dlast, "setConfig", det)
    /\ UNCHANGED <<trackerVars, probe>>

NextDet == DoDetect \/ DoDetReset \/ DoDetSetConfig

SpecDet == InitDet /\ [][NextDet]_vars

\* C17: detect() on a frame of width 0 or height 0 returns an empty list and
\* leaves the detector as it was: frame history, tracked regions, frame
\* counter and everything else
C17_ZeroSizeFrame ==
    (dlast.op = "detect" /\ ~Sized(dlast.frame)) =>
        /\ dlast.ret = <<>>
        /\ det = dlast.pre

\* a frame of zero size was given to a detector that held history, tracked
\* regions and had counted frames
C17_Witness ==
    /\ dlast.op = "detect"
    /\ ~Sized(dlast.frame)
    /\ History(dlast.pre) # <<>>
    /\ TrackedIds(dlast.pre) # {}
    /\ dlast.pre.frameCount > 0

\* the detector holds frame and no other frame
HoldsOnly(d, frame) ==
    /\ History(d) # <<>>
    /\ \A k \in DOMAIN History(d) : History(d)[k] = frame

\* a SaliencyDetector with this config keeps the frame it is given
Keeps(d, cfg) == d.kind = "saliency" => cfg.bufferSize >= 1

\* a SaliencyDetector with this config keeps two frames to compare
Compares(d, cfg) == d.kind = "saliency" => cfg.bufferSize >= 2

\* C19 as stated: the first detect() call after construction or reset()
\* returns an empty list and stores its frame as the history
C19_FirstCallStores ==
    (dlast.op = "detect" /\ dlast.calls = 1) =>
        /\ dlast.ret = <<>>
        /\ HoldsOnly(det, dlast.frame)

\* C19: the first detect() call with a frame of non-zero size after
\* construction or reset() returns an empty list and, unless a
\* SaliencyDetector has bufferSize < 1, leaves that frame as the only
\* history; the next call with a frame of non-zero size, if of the same
\* size, is compared against it (a SaliencyDetector needing bufferSize >= 2
\* then)
C19_FirstSizedCallStores ==
    /\ (dlast.op = "detect" /\ Sized(dlast.frame) /\ dlast.sized = 1) =>
           /\ dlast.ret = <<>>
           /\ dlast.path # "processed"
           /\ Keeps(det, dlast.pre.config) => HoldsOnly(det, dlast.frame)
    /\ (/\ dlast.op = "detect"
        /\ Sized(dlast.frame)
        /\ dlast.sized = 2
        /\ SameSize(dlast.seeded.frame, dlast.frame)
        /\ Keeps(det, dlast.seeded.config)
        /\ Compares(det, dlast.pre.config)) =>
           /\ dlast.path = "processed"
           /\ HoldsOnly(dlast.pre, dlast.seeded.frame)

\* after a reset(), the second frame of non-zero size was compared with the
\* first, another picture of the same size
C19_Witness ==
    /\ dlast.op = "detect"
    /\ dlast.resets > 0
    /\ dlast.sized = 2
    /\ dlast.path = "processed"
    /\ HoldsOnly(dlast.pre, dlast.seeded.frame)
    /\ dlast.seeded.frame # dlast.frame
    /\ dlast.ret # <<>>

\* C20: a MotionDetector emits a blob only if detect() matched or created
\* it in at least minFramesSeen calls; with minFramesSeen = 2 no blob is
\* emitted by the call that created it
C20_EmittedAfterFrames ==
    (dlast.op = "detect" /\ det.kind = "motion") =>
        /\ \A id \in dlast.emitted : dlast.seen[id] >= dlast.pre.config.minFramesSeen
        /\ dlast.pre.config.minFramesSeen = 2 =>
               dlast.emitted \cap dlast.createdIds = {}

\* C22: after every detect() call a SaliencyDetector's frame buffer and
\* luminance buffer hold at most bufferSize entries, the latest of them
\* being the frame just given if it has a size and bufferSize >= 1
C22_BufferBounded ==
    (dlast.op = "detect" /\ det.kind = "saliency") =>
        /\ Len(det.frameBuffer) <= det.config.bufferSize
        /\ Len(det.luminanceBuffer) <= det.config.bufferSize
        /\ (Sized(dlast.frame) /\ det.config.bufferSize >= 1) =>
               /\ det.frameBuffer # <<>>
               /\ det.frameBuffer[Len(det.frameBuffer)] = dlast.frame

---------------------------------------------------------------------------
(* SpecResize: a detector of any class given a stream of frames of two     *)
(* sizes, long enough for regions to be tracked and emitted after the size *)
(* changed.                                                                *)

\* the number of frames of the stream
MaxResizeFrames == 5

\* the frames of the stream
ResizeFrames == {DetBlank, DetBars, DetWide, Block(9, 7, {}, {}, 0), DetNoWidth}

ResizeFrame ==
    /\ dlast.n < MaxResizeFrames
    /\ \E frame \in ResizeFrames : Detected(frame)

NextResize == ResizeFrame

SpecResize == InitDet /\ [][NextResize]_vars

\* C18 as stated: when the frame differs in size from the frame of the call
\* before, detect() returns an empty list and keeps no earlier frame and no
\* tracked region
C18_SizeChangeFlushes ==
    (/\ dlast.op = "detect"
     /\ dlast.n > 1
     /\ ~SameSize(dlast.before, dlast.frame)) =>
        /\ dlast.ret = <<>>
        /\ \A k \in DOMAIN History(det) : History(det)[k] = dlast.frame
        /\ TrackedIds(det) = {}

\* C18: when a frame of non-zero size differs in size from the canvas (the
\* size of the latest frame of non-zero size, 300 x 150 before any),
\* detect() returns an empty list and keeps no earlier frame and no tracked
\* region; no region tracked before is tracked, matched or emitted again
C18_ResizeFlushes ==
    /\ (dlast.op = "detect" /\ Flushing(dlast.pre, dlast.frame)) =>
           /\ dlast.ret = <<>>
           /\ \A k \in DOMAIN History(det) : History(det)[k] = dlast.frame
           /\ TrackedIds(det) = {}
    /\ dlast.op = "detect" =>
           (TrackedIds(det) \cup dlast.matchedIds \cup dlast.emitted)
               \cap dlast.dropped = {}

\* regions were dropped with a change of size, and a region found after it
\* is emitted
C18_Witness ==
    /\ dlast.op = "detect"
    /\ dlast.dropped # {}
    /\ dlast.emitted # {}
    /\ dlast.ret # <<>>

---------------------------------------------------------------------------
(* SpecAge: a MotionDetector of part_002 with a small maxBlobAge, given a  *)
(* stream of frames in which blobs appear and then stay unmatched.         *)

\* the number of frames of the stream
MaxAgeFrames == 6

\* 7 x 9 pictures with two small blocks, far enough from each other to be
\* tracked as two blobs, and with the upper of them only
DetPair == Block(7, 9, 2..4, {1, 2, 6, 7}, 255)
DetUpper == Block(7, 9, 2..4, {1, 2}, 255)

\* the frames of the stream
AgeFrames == {DetBlank, DetPair, DetUpper, DetNoWidth}

\* the options the detector is made with
AgeOptions == {[minBlobArea |-> 4, maxBlobAge |-> 1],
               [minBlobArea |-> 4, maxBlobAge |-> 2]}

InitAge ==
    /\ InitNoTracker
    /\ probe = Idle
    /\ det \in {MD_Construct(options) : options \in AgeOptions}
    /\ dlast = NoCalls

AgeFrame ==
    /\ dlast.n < MaxAgeFrames
    /\ \E frame \in AgeFrames : Detected(frame)

NextAge == AgeFrame

SpecAge == InitAge /\ [][NextAge]_vars

\* C21: after a processed frame, a blob that no raw blob matched for more
\* than maxBlobAge processed frames in a row is not in the active-blob map,
\* and one unmatched for at most maxBlobAge frames is; a blob that was
\* removed this way is never tracked or emitted again
C21_BlobEviction ==
    (dlast.op = "detect" /\ det.kind = "motion") =>
        /\ dlast.path = "processed" =>
               \A id \in DOMAIN dlast.unseen :
                   id \in TrackedIds(det)
                       <=> dlast.unseen[id] <= dlast.pre.config.maxBlobAge
        /\ (TrackedIds(det) \cup dlast.emitted) \cap dlast.gone = {}

\* a blob went unmatched for maxBlobAge + 1 frames and was removed, a blob
\* unmatched for fewer frames stays, and a blob is emitted
C21_Witness ==
    /\ dlast.op = "detect"
    /\ det.kind = "motion"
    /\ dlast.path = "processed"
    /\ \E id \in DOMAIN dlast.unseen :
           dlast.unseen[id] = dlast.pre.config.maxBlobAge + 1
    /\ \E id \in DOMAIN dlast.unseen :
           /\ dlast.unseen[id] > 0
           /\ dlast.unseen[id] <= dlast.pre.config.maxBlobAge
    /\ dlast.emitted # {}

---------------------------------------------------------------------------
(* SpecWide: a SaliencyDetector given 24 x 7 pictures, wide enough for two *)
(* salient regions to stay apart after cleaning, with a mergeDistance that *)
(* keeps them apart.                                                       *)

\* the number of frames of the stream
MaxWideFrames == 5

\* 24 x 7 pictures: nothing, a block on the left, one on the right, both
WideBlank == Block(24, 7, {}, {}, 0)
WideLeft == Block(24, 7, 2..4, 2..4, 255)
WideRight == Block(24, 7, 19..21, 2..4, 255)
WideBoth == Block(24, 7, (2..4) \cup (19..21), 2..4, 255)
WideFrames == {WideBlank, WideLeft, WideRight, WideBoth}

\* the options the detector is made with
WideOptions == [minBlobArea |-> 4, mergeDistance |-> 5]

InitWide ==
    /\ InitNoTracker
    /\ probe = Idle
    /\ det = SD_Construct(WideOptions)
    /\ dlast = NoCalls

WideFrame ==
    /\ dlast.n < MaxWideFrames
    /\ \E frame \in WideFrames : Detected(frame)

NextWide == WideFrame

SpecWide == InitWide /\ [][NextWide]_vars

\* C23: a SaliencyDetector emits a tracked region only when framesSeen >= 2;
\* framesSeen is the number of detect() calls that created or matched the
\* region, no call both creates and matches it, and so no region is emitted
\* by the call that created it; a processed frame emits every tracked region
\* with framesSeen >= 2
C23_SaliencyConfirmed ==
    (dlast.op = "detect" /\ det.kind = "saliency") =>
        /\ \A k \in DOMAIN det.trackedSaliency :
               /\ det.trackedSaliency[k].framesSeen
                      = dlast.seen[det.trackedSaliency[k].id]
               /\ dlast.path = "processed" =>
                      (det.trackedSaliency[k].id \in dlast.emitted
                           <=> det.trackedSaliency[k].framesSeen >= 2)
        /\ \A id \in dlast.emitted : dlast.seen[id] >= 2
        /\ dlast.matchedIds \cap dlast.createdIds = {}
        /\ dlast.emitted \cap dlast.createdIds = {}
        /\ Len(dlast.ret) = Cardinality(dlast.emitted)

\* of two regions found in a frame, one is matched to a track and emitted
\* and the other is tracked as new and not emitted
C23_Witness ==
    /\ dlast.op = "detect"
    /\ det.kind = "saliency"
    /\ dlast.matchedIds # {}
    /\ dlast.createdIds # {}
    /\ dlast.emitted # {}

---------------------------------------------------------------------------
(* SpecType: the classification of a salient region by its cue scores *)

\* the mean scores of a region, in 1/ScoreScale, and its area
TypeScores == {0, 100, 200, 201, 300, 301, 400, 450, 500, 1000}
TypeAreas == {1, 4}

InitType ==
    /\ InitNoTracker
    /\ det = Idle
    /\ dlast = Idle
    /\ \E m \in TypeScores, l \in TypeScores, f \in TypeScores, a \in TypeAreas :
          probe = [op |-> "type", area |-> a, motionScore |-> m,
                   luminanceScore |-> l, flickerScore |-> f,
                   called |-> FALSE, type |-> "none"]

\* the classification at saliency-detector.ts:546-562 of a region whose cue
\* maps add up to area times the mean scores
CallType ==
    /\ probe.op = "type"
    /\ ~probe.called
    /\ probe' = [probe EXCEPT
                    !.called = TRUE,
                    !.type = SD_Type(probe.area,
                                     probe.area * probe.motionScore,
                                     probe.area * probe.luminanceScore,
                                     probe.area * probe.flickerScore)]
    /\ UNCHANGED <<trackerVars, detectorVars>>

NextType == CallType

SpecType == InitType /\ [][NextType]_vars

\* the type by first-match precedence, flicker being taken when its score
\* is above 0.3 and at least share/10 of the largest of the three scores
TypeByPrecedence(m, l, f, share) ==
    IF f > 300 /\ 10 * f >= share * Max3(m, l, f) THEN "flicker"
    ELSE IF 2 * m >= 3 * l /\ m > 200 THEN "motion"
    ELSE IF 2 * l >= 3 * m /\ l > 200 THEN "light"
    ELSE "hybrid"

\* C24 as stated: 'flicker' if the flicker score exceeds 0.3 and is the
\* largest of the motion, luminance and flicker scores; else 'motion' if
\* motion >= 1.5 x luminance and motion > 0.2; else 'light' if luminance >=
\* 1.5 x motion and luminance > 0.2; else 'hybrid'
C24_FlickerLargest ==
    probe.op = "type" /\ probe.called =>
        probe.type = TypeByPrecedence(probe.motionScore, probe.luminanceScore,
                                      probe.flickerScore, 10)

\* C24: 'flicker' if the flicker score exceeds 0.3 and is at least 0.8 times
\* the largest of the motion, luminance and flicker scores; else 'motion' if
\* motion >= 1.5 x luminance and motion > 0.2; else 'light' if luminance >=
\* 1.5 x motion and luminance > 0.2; else 'hybrid'
C24_FlickerShare ==
    probe.op = "type" /\ probe.called =>
        probe.type = TypeByPrecedence(probe.motionScore, probe.luminanceScore,
                                      probe.flickerScore, 8)

\* a region is typed 'flicker' though its motion score is larger and would
\* make it 'motion'
C24_Witness ==
    /\ probe.op = "type"
    /\ probe.called
    /\ probe.type = "flicker"
    /\ probe.flickerScore < probe.motionScore
    /\ 2 * probe.motionScore >= 3 * probe.luminanceScore

---------------------------------------------------------------------------
(* SpecFuse: a SaliencyDetector whose fusion weights are set by setConfig *)

MaxFuseOps == 4

FuseFrames == {DetBlank, DetBars}

\* the weights given to setConfig
FuseWeights ==
    {[motionWeight |-> 0, luminanceWeight |-> 0,
      gradientWeight |-> 0, flickerWeight |-> 0],
     [motionWeight |-> 100, luminanceWeight |-> 0]}

InitFuse ==
    /\ InitNoTracker
    /\ probe = Idle
    /\ det = SD_Construct(DetOptions)
    /\ dlast = NoCalls

\* detector.detect(frame)
FuseFrame ==
    /\ dlast.n < MaxFuseOps
    /\ \E frame \in FuseFrames : Detected(frame)

\* detector.setConfig(weights)
FuseSetConfig ==
    /\ dlast.n < MaxFuseOps
    /\ \E options \in FuseWeights : det' = SD_setConfig(det, options)
    /\ dlast' = AfterOther(dlast, "setConfig", det)
    /\ UNCHANGED <<trackerVars, probe>>

NextFuse == FuseFrame \/ FuseSetConfig

SpecFuse == InitFuse /\ [][NextFuse]_vars

\* the fused map of the call of detect() that left detector d with a frame
\* of w x h at the end of its buffers (saliency-detector.ts:163-175)
SD_FusedOf(d, maps) ==
    SD_fuseSaliencyMaps(d.config, maps.motion, maps.luminance, maps.gradient,
                        maps.flicker)

\* C25: every per-frame division whose divisor can be zero is guarded and
\* yields 0, so that no NaN appears in a saliency map, for any configuration
\* accepted by setConfig: the fused map of a processed frame has no NaN entry
C25_NoNaN ==
    dlast.op = "detect" /\ dlast.path = "processed" =>
        \A fused \in {SD_FusedOf(det, SD_Maps(det, dlast.frame.width,
                                              dlast.frame.height))} :
            \A i \in DOMAIN fused : ~fused[i].nan

---------------------------------------------------------------------------
(* SpecMorph: one erode pass and one dilate pass over a mask *)

MaxMaskSide == 7

\* the sides of the border that are set in the mask given
BorderSides == SUBSET {"top", "bottom", "left", "right"}

\* pixel (x, y) lies on one of the sides, the border being radius wide
OnSides(w, h, x, y, radius, sides) ==
    \/ "top" \in sides /\ y < radius
    \/ "bottom" \in sides /\ y >= h - radius
    \/ "left" \in sides /\ x < radius
    \/ "right" \in sides /\ x >= w - radius

\* a mask of w x h whose interior pixels have the value inner and whose
\* border pixels are 1 on the sides given and 0 elsewhere
Framed(w, h, radius, inner, sides) ==
    Array([i \in 1..(w * h) |->
        IF Interior(w, h, (i - 1) % w, (i - 1) \div w, radius) THEN inner
        ELSE IF OnSides(w, h, (i - 1) % w, (i - 1) \div w, radius, sides)
        THEN 1 ELSE 0])

\* the indices of the interior pixels of a mask of w x h
InteriorOf(w, h, radius) ==
    {i \in 1..(w * h) : Interior(w, h, (i - 1) % w, (i - 1) \div w, radius)}

InitMorph ==
    /\ InitNoTracker
    /\ det = Idle
    /\ dlast = Idle
    /\ \E w \in 3..MaxMaskSide, h \in 3..MaxMaskSide, radius \in {1, 2},
          inner \in {0, 1}, sides \in BorderSides :
          /\ inner = 0 => sides = {}
          /\ probe = [op |-> "clean", width |-> w, height |-> h,
                      radius |-> radius,
                      mask |-> Framed(w, h, radius, inner, sides),
                      called |-> FALSE, result |-> <<>>]

\* erode and then dilate at the radius of the erosion, with the neighbour
\* threshold 5 of both detectors (saliency-detector.ts:454-458,
\* part_002:669-701)
CallClean ==
    /\ probe.op = "clean"
    /\ ~probe.called
    /\ probe' = [probe EXCEPT
                    !.called = TRUE,
                    !.result = dilate(erode(probe.mask, probe.width,
                                            probe.height, probe.radius, 5),
                                      probe.width, probe.height, probe.radius)]
    /\ UNCHANGED <<trackerVars, detectorVars>>

NextMorph == CallClean

SpecMorph == InitMorph /\ [][NextMorph]_vars

\* every interior pixel of the mask has the value v
InteriorAll(mask, w, h, radius, v) ==
    \A i \in InteriorOf(w, h, radius) : mask[i] = v

\* C26 as stated: for a mask whose interior pixels are all 1, whatever its
\* border, one erode pass followed by one dilate pass at the same radius and
\* the neighbour threshold of the detector returns a mask whose interior
\* pixels are all 1; an all-zero mask stays all-zero
C26_OpeningKeeps ==
    probe.op = "clean" /\ probe.called =>
        /\ InteriorAll(probe.mask, probe.width, probe.height, probe.radius, 1)
               => InteriorAll(probe.result, probe.width, probe.height,
                              probe.radius, 1)
        /\ (\A i \in DOMAIN probe.mask : probe.mask[i] = 0)
               => (\A i \in DOMAIN probe.result : probe.result[i] = 0)

\* every pixel of the mask has the value v
MaskAll(mask, v) == \A i \in DOMAIN mask : mask[i] = v

\* the interior of a mask of w x h is at least 2 pixels wide and high and
\* has at least 6 pixels
WideInterior(w, h, radius) ==
    /\ w - 2 * radius >= 2
    /\ h - 2 * radius >= 2
    /\ (w - 2 * radius) * (h - 2 * radius) >= 6

\* C26: for a mask whose pixels are all 1, or whose interior pixels are all
\* 1 and whose interior is at least 2 pixels wide and high and has at least
\* 6 pixels (whatever the border), one erode pass followed by one dilate
\* pass at the same radius and the neighbour threshold of the detector
\* returns a mask whose interior pixels are all 1; an all-zero mask stays
\* all-zero
C26_OpeningKeepsWide ==
    probe.op = "clean" /\ probe.called =>
        /\ (/\ InteriorAll(probe.mask, probe.width, probe.height,
                           probe.radius, 1)
            /\ \/ MaskAll(probe.mask, 1)
               \/ WideInterior(probe.width, probe.height, probe.radius))
               => InteriorAll(probe.result, probe.width, probe.height,
                              probe.radius, 1)
        /\ MaskAll(probe.mask, 0) => MaskAll(probe.result, 0)

\* the erosion cleared a pixel of an all-one interior inside a border of
\* zeros, and the dilation set it again
C26_Witness ==
    /\ probe.op = "clean"
    /\ probe.called
    /\ InteriorAll(probe.mask, probe.width, probe.height, probe.radius, 1)
    /\ \E i \in DOMAIN probe.mask : probe.mask[i] = 0
    /\ \E i \in InteriorOf(probe.width, probe.height, probe.radius) :
           erode(probe.mask, probe.width, probe.height, probe.radius, 5)[i] = 0
    /\ InteriorAll(probe.result, probe.width, probe.height, probe.radius, 1)

---------------------------------------------------------------------------
(* SpecLoops: the loops of a call of detect(), one iteration a step: the
   scan and the flood fills of findSalientRegions / findBlobs, and the loops
   of mergeNearbyRegions *)

MaxFillPixels == 9
MaxMergeRegions == 3

\* the widths and heights of the masks filled
FillSizes ==
    {s \in (1..MaxFillPixels) \X (1..MaxFillPixels) : s[1] * s[2] <= MaxFillPixels}

\* a region of 2 x 2 pixels at (x, 0)
MergeRegion(x) ==
    [bbox |-> [x |-> x, y |-> 0, width |-> 2, height |-> 2],
     centerX |-> (x + 1) * Scale, centerY |-> Scale, area |-> 4]

MergeRegions == {MergeRegion(x) : x \in {0, 4, 6, 30}}

\* the config of the detector that merges the regions (pixels)
LoopsConfig == [mergeDistance |-> 5]

RECURSIVE SeqsUpTo(_, _)
SeqsUpTo(S, n) ==
    IF n = 0 THEN {<<>>}
    ELSE SeqsUpTo(S, n - 1)
             \cup {Append(s, e) : s \in {t \in SeqsUpTo(S, n - 1) : Len(t) = n - 1},
                                  e \in S}

\* findBlobs / findSalientRegions entered with a mask: at counts the pixels
\* the scan has passed, fill tells the flood fill under way (its seed, the
\* pixels it marked and the entries it pushed)
FillStart(w, h, mask) ==
    [op |-> "findRegions", width |-> w, height |-> h, mask |-> mask,
     at |-> 0, stack |-> <<>>, visited |-> {},
     marks |-> [i \in 1..(w * h) |-> 0],
     fill |-> [seed |-> 0, taken |-> {}, pushes |-> 0], fills |-> 0]

\* mergeNearbyRegions entered with regions (saliency-detector.ts:681-684)
MergeStart(regions) ==
    [op |-> "merge", regions |-> regions,
     pc |-> IF Len(regions) <= 1 THEN "done" ELSE "for i",
     i |-> 1, j |-> 1, used |-> {}, merged |-> <<>>,
     current |-> Idle, changed |-> FALSE, absorbed |-> 0]

InitLoops ==
    /\ InitNoTracker
    /\ det = Idle
    /\ dlast = Idle
    /\ \/ \E s \in FillSizes : \E mask \in [1..(s[1] * s[2]) -> {0, 1}] :
             probe = FillStart(s[1], s[2], mask)
       \/ \E regions \in SeqsUpTo(MergeRegions, MaxMergeRegions) :
             probe = MergeStart(regions)

\* one pixel of the scan loops (saliency-detector.ts:528-532,
\* part_002:721-725, motion-detection.ts:192-197): a set pixel not yet
\* visited starts a flood fill with the pixel on its stack
ScanPixel ==
    /\ probe.op = "findRegions"
    /\ probe.stack = <<>>
    /\ probe.at < probe.width * probe.height
    /\ probe' =
          IF probe.mask[probe.at + 1] = 1 /\ (probe.at + 1) \notin probe.visited
          THEN [probe EXCEPT
                   !.at = @ + 1,
                   !.stack = <<<<probe.at % probe.width,
                                 probe.at \div probe.width>>>>,
                   !.fill = [seed |-> probe.at + 1, taken |-> {}, pushes |-> 0],
                   !.fills = @ + 1]
          ELSE [probe EXCEPT !.at = @ + 1]
    /\ UNCHANGED <<trackerVars, detectorVars>>

\* a faulty variant of FillPushes that pushes the 8 neighbours
FillPushesAround(x, y) ==
    <<<<x + 1, y>>, <<x - 1, y>>, <<x, y + 1>>, <<x, y - 1>>,
      <<x + 1, y + 1>>, <<x - 1, y - 1>>, <<x - 1, y + 1>>, <<x + 1, y - 1>>>>

\* the entries pushed for pixel (x, y) (saliency-detector.ts:657,
\* part_002:779, motion-detection.ts:257)
FillPushes(x, y) == <<<<x + 1, y>>, <<x - 1, y>>, <<x, y + 1>>, <<x, y - 1>>>>

\* the entry popped is skipped (saliency-detector.ts:636-637)
FillSkips(p, x, y) ==
    \/ x < 0 \/ x >= p.width \/ y < 0 \/ y >= p.height
    \/ (y * p.width + x + 1) \in p.visited
    \/ p.mask[y * p.width + x + 1] = 0

\* one iteration of the loop of the flood fill (saliency-detector.ts:632-658)
\* with (x, y) popped
FillTaken(p, x, y) ==
    IF FillSkips(p, x, y)
    THEN [p EXCEPT !.stack = SubSeq(@, 1, Len(@) - 1)]
    ELSE [p EXCEPT
             !.stack = SubSeq(@, 1, Len(@) - 1) \o FillPushes(x, y),
             !.visited = @ \cup {y * p.width + x + 1},
             !.marks[y * p.width + x + 1] = @ + 1,
             !.fill.taken = @ \cup {y * p.width + x + 1},
             !.fill.pushes = @ + Len(FillPushes(x, y))]

FillPop ==
    /\ probe.op = "findRegions"
    /\ probe.stack # <<>>
    /\ probe' = FillTaken(probe, probe.stack[Len(probe.stack)][1],
                          probe.stack[Len(probe.stack)][2])
    /\ UNCHANGED <<trackerVars, detectorVars>>

\* the loop over i of mergeNearbyRegions (saliency-detector.ts:686-691, 734)
MergeOuter ==
    /\ probe.op = "merge"
    /\ probe.pc = "for i"
    /\ probe' =
          IF probe.i > Len(probe.regions) THEN [probe EXCEPT !.pc = "done"]
          ELSE IF probe.i \in probe.used THEN [probe EXCEPT !.i = @ + 1]
          ELSE [probe EXCEPT !.current = probe.regions[probe.i],
                             !.used = @ \cup {probe.i},
                             !.changed = TRUE,
                             !.pc = "while"]
    /\ UNCHANGED <<trackerVars, detectorVars>>

\* the test of while (changed) (saliency-detector.ts:692-694, 734)
MergeWhile ==
    /\ probe.op = "merge"
    /\ probe.pc = "while"
    /\ probe' =
          IF probe.changed
          THEN [probe EXCEPT !.changed = FALSE, !.j = 1, !.pc = "for j"]
          ELSE [probe EXCEPT !.merged = Append(@, probe.current),
                             !.i = @ + 1,
                             !.pc = "for i"]
    /\ UNCHANGED <<trackerVars, detectorVars>>

\* one iteration of the loop over j (saliency-detector.ts:695-731)
MergeInner ==
    /\ probe.op = "merge"
    /\ probe.pc = "for j"
    /\ probe' =
          IF probe.j > Len(probe.regions) THEN [probe EXCEPT !.pc = "while"]
          ELSE IF probe.j \in probe.used
                  \/ ~SD_Within(probe.current.centerX - probe.regions[probe.j].centerX,
                                probe.current.centerY - probe.regions[probe.j].centerY,
                                LoopsConfig.mergeDistance)
          THEN [probe EXCEPT !.j = @ + 1]
          ELSE [probe EXCEPT
                   !.current = SD_Absorb(@, probe.regions[probe.j]),
                   !.used = @ \cup {probe.j},
                   !.changed = TRUE,
                   !.absorbed = @ + 1,
                   !.j = @ + 1]
    /\ UNCHANGED <<trackerVars, detectorVars>>

NextLoops == ScanPixel \/ FillPop \/ MergeOuter \/ MergeWhile \/ MergeInner

SpecLoops == InitLoops /\ [][NextLoops]_vars

\* the loops go on while they can
SpecLoopsFair == SpecLoops /\ WF_vars(NextLoops)

\* the loops have returned
LoopsDone ==
    \/ probe.op = "findRegions"
           /\ probe.stack = <<>> /\ probe.at = probe.width * probe.height
    \/ probe.op = "merge" /\ probe.pc = "done"

\* what holds at every step of the loops
LoopsBounded ==
    /\ probe.op = "findRegions" =>
          /\ \A i \in DOMAIN probe.marks : probe.marks[i] <= 1
          /\ probe.fill.pushes <= 4 * Cardinality(probe.fill.taken)
          /\ Len(probe.stack) <= 1 + probe.fill.pushes
          /\ probe.stack = <<>> /\ probe.fill.seed # 0 =>
                probe.fill.taken
                    = floodFill(probe.mask, probe.width, probe.height,
                                probe.fill.seed).pixels
    /\ probe.op = "merge" =>
          /\ probe.absorbed <= Len(probe.regions)
          /\ probe.absorbed + Len(probe.merged) <= Len(probe.regions)
          /\ probe.pc = "done" /\ Len(probe.regions) > 1 =>
                /\ probe.merged
                       = SD_mergeNearbyRegions(probe.regions, LoopsConfig.mergeDistance)
                /\ probe.absorbed + Len(probe.merged) = Len(probe.regions)

\* C27: every call terminates: the flood fill marks each mask pixel visited
\* at most once and its stack empties after at most 4 pushes per visited
\* pixel, and the region-merge loop stops after at most n absorptions for n
\* input regions
C27_LoopsTerminate == []LoopsBounded /\ <>LoopsDone

\* a flood fill has returned after taking several pixels and skipping
\* entries it had pushed, or a merge has returned after a second pass of
\* while (changed) absorbed a region the first pass had left
C27_Witness ==
    \/ /\ probe.op = "findRegions"
       /\ probe.stack = <<>>
       /\ probe.at = probe.width * probe.height
       /\ probe.fills >= 2
       /\ Cardinality(probe.fill.taken) >= 3
    \/ /\ probe.op = "merge"
       /\ probe.pc = "done"
       /\ probe.absorbed = 2
       /\ Len(probe.merged) = 1
       /\ probe.regions = <<MergeRegion(0), MergeRegion(6), MergeRegion(4)>>

---------------------------------------------------------------------------
(* SpecMatch: frames of one or two detections that compete for the tracks
   of one tracker *)

\* number of frames in a behaviour of SpecMatch
MaxMatchFrames == 3

MatchDets == {Det(Box(x, 0, 10, 10), "person", 90) : x \in {200, 205, 320}}

\* one detection, or two different ones in either order
MatchFrames ==
    {<<d>> : d \in MatchDets}
        \cup {<<p[1], p[2]>> : p \in {q \in MatchDets \X MatchDets : q[1] # q[2]}}

MatchConfigs == {[maxAge |-> 30], [maxAge |-> 30, iouThreshold |-> 0]}

InitMatch ==
    /\ InitCommon
    /\ \E p \in MatchConfigs : config = [i \in Trackers |-> Construct(p)]
    /\ last = NoUpdate("new", 1, config[1])

MatchFrame ==
    /\ Len(log) < MaxMatchFrames
    /\ \E f \in MatchFrames : DoUpdate(1, f)

NextMatch == MatchFrame

SpecMatch == InitMatch /\ [][NextMatch]_vars

\* detection di and track ti of the last call of update(): the combined
\* score of the detection and the track's predicted box (bbox + velocity),
\* and whether their centres are closer than max(width, height, 150) px of
\* the track
LastPair(di, ti) ==
    EntryFor(di, ti, last.dets[di].bbox, predictNextPosition(last.pre[ti]),
             MaxDist(last.pre[ti].bbox))

\* the pair may be matched: score >= iouThreshold or centres close
LastCandidate(di, ti) ==
    LastPair(di, ti).score >= last.cfg.iouThreshold \/ LastPair(di, ti).near

\* C28: in each update() every detection is matched to at most one track
\* and every track to at most one detection, candidate pairs are accepted in
\* descending score order, and a candidate pair is left unmatched only if
\* its detection or its track was claimed by a pair with an equal or higher
\* score
C28_GreedyAssignment ==
    last.op = "update" =>
        /\ \A k \in DOMAIN last.matched, l \in DOMAIN last.matched :
              k # l => /\ last.matched[k][1] # last.matched[l][1]
                       /\ last.matched[k][2] # last.matched[l][2]
        /\ \A k \in DOMAIN last.matched, l \in DOMAIN last.matched :
              k < l => LastPair(last.matched[k][1], last.matched[k][2]).score
                           >= LastPair(last.matched[l][1], last.matched[l][2]).score
        /\ \A k \in DOMAIN last.matched :
              LastCandidate(last.matched[k][1], last.matched[k][2])
        /\ \A di \in DOMAIN last.dets, ti \in DOMAIN last.pre :
              (/\ LastCandidate(di, ti)
               /\ \A k \in DOMAIN last.matched : last.matched[k] # <<di, ti>>)
                  => \E k \in DOMAIN last.matched :
                        /\ last.matched[k][1] = di \/ last.matched[k][2] = ti
                        /\ LastPair(last.matched[k][1], last.matched[k][2]).score
                               >= LastPair(di, ti).score

\* two pairs were accepted, the first of them not the first of the loops,
\* and the candidate pair the loops met first was left for its lower score
C28_Witness ==
    /\ last.op = "update"
    /\ Len(last.matched) = 2
    /\ last.matched[1] = <<1, 2>>
    /\ LastCandidate(1, 1)
    /\ LastPair(1, 1).score < LastPair(1, 2).score
    /\ LastPair(1, 1).score < LastPair(2, 1).score

\* C29: update() matches a detection to a track only if their combined
\* score is >= iouThreshold or the centre of the detection is closer than
\* max(track width, track height, 150) px to the predicted centre of the
\* track (bbox + velocity)
C29_MatchedAreCandidates ==
    last.op = "update" =>
        \A di \in DOMAIN last.dets, ti \in DOMAIN last.pre :
            (\E k \in DOMAIN last.matched : last.matched[k] = <<di, ti>>)
                => \/ LastPair(di, ti).score >= last.cfg.iouThreshold
                   \/ calculateDistanceSq(
                          getCenter2(last.dets[di].bbox),
                          getCenter2(predictNextPosition(last.pre[ti])))
                          < (2 * Max3(last.pre[ti].bbox.width,
                                      last.pre[ti].bbox.height, 150 * Scale))
                            * (2 * Max3(last.pre[ti].bbox.width,
                                        last.pre[ti].bbox.height, 150 * Scale))

\* a detection closer than 150 px to where the track is, but not to where
\* it is predicted, and scoring below iouThreshold, was left unmatched, and
\* the track was matched to the other detection of the frame
C29_Witness ==
    /\ last.op = "update"
    /\ \E di \in DOMAIN last.dets, ti \in DOMAIN last.pre :
          /\ ~LastCandidate(di, ti)
          /\ di \in {last.unmatchedDetections[k] :
                         k \in DOMAIN last.unmatchedDetections}
          /\ last.pre[ti].velocity.x # 0
          /\ calculateDistanceSq(getCenter2(last.dets[di].bbox),
                                 getCenter2(last.pre[ti].bbox))
                 < (2 * MaxDist(last.pre[ti].bbox)) * (2 * MaxDist(last.pre[ti].bbox))
          /\ \E k \in DOMAIN last.matched :
                 last.matched[k][2] = ti /\ last.matched[k][1] # di

---------------------------------------------------------------------------
(* SpecCoast: one object seen twice and then missed for frames on end *)

\* number of frames in a behaviour of SpecCoast
MaxCoastFrames == 10

CoastConfigs == {[maxAge |-> 8], [maxAge |-> 30, minHits |-> 1]}

\* how far the object has moved when it is seen again
CoastMoves == {<<20, 0>>, <<-10, 30>>}

InitCoast ==
    /\ InitCommon
    /\ \E p \in CoastConfigs : config = [i \in Trackers |-> Construct(p)]
    /\ last = NoUpdate("new", 1, config[1])

CoastFirst ==
    /\ Len(log) = 0
    /\ DoUpdate(1, <<DetC>>)

\* the object is seen where its track is, moved by one of the moves
CoastSeen ==
    /\ Len(log) \in 1..(MaxCoastFrames - 1)
    /\ tracks[1] # <<>>
    /\ \E mv \in CoastMoves :
          DoUpdate(1, <<Det(Shifted(tracks[1][1].bbox, mv), "person", 90)>>)
    /\ last'.matched # <<>>

CoastMissed ==
    /\ Len(log) \in 2..(MaxCoastFrames - 1)
    /\ DoUpdate(1, <<>>)

NextCoast == CoastFirst \/ CoastSeen \/ CoastMissed

SpecCoast == InitCoast /\ [][NextCoast]_vars

\* C30: an unmatched track advances its bbox by its velocity, multiplies its
\* velocity by 0.9 and appends the new bbox to history only while its
\* incremented timeSinceUpdate is <= 5; once timeSinceUpdate exceeds 5 an
\* unmatched update leaves its bbox, velocity and history unchanged (only
\* age and timeSinceUpdate grow) until it is matched or pruned
C30_CoastingWindow ==
    Updated =>
        \A k \in DOMAIN Held :
            last.origin[k] # 0 /\ ~MatchedTrack(last.origin[k]) =>
                /\ Held[k].age = last.pre[last.origin[k]].age + 1
                /\ Held[k].timeSinceUpdate
                       = last.pre[last.origin[k]].timeSinceUpdate + 1
                /\ Held[k].timeSinceUpdate <= 5 =>
                      /\ Held[k].bbox
                             = [last.pre[last.origin[k]].bbox EXCEPT
                                   !.x = @ + last.pre[last.origin[k]].velocity.x,
                                   !.y = @ + last.pre[last.origin[k]].velocity.y]
                      /\ Held[k].velocity.x
                             = RoundDiv(9 * last.pre[last.origin[k]].velocity.x, 10)
                      /\ Held[k].velocity.y
                             = RoundDiv(9 * last.pre[last.origin[k]].velocity.y, 10)
                      /\ Held[k].history
                             = Append(last.pre[last.origin[k]].history, Held[k].bbox)
                /\ Held[k].timeSinceUpdate > 5 =>
                      /\ Held[k].bbox = last.pre[last.origin[k]].bbox
                      /\ Held[k].velocity = last.pre[last.origin[k]].velocity
                      /\ Held[k].history = last.pre[last.origin[k]].history

\* a moving track has gone unmatched for a seventh frame on end: it coasted
\* in five of them and has stood where it was since
C30_Witness ==
    /\ Updated
    /\ \E k \in DOMAIN Held :
          /\ last.origin[k] # 0
          /\ ~MatchedTrack(last.origin[k])
          /\ Held[k].timeSinceUpdate = 7
          /\ Held[k].velocity.x # 0
          /\ Len(Held[k].history) = 7

---------------------------------------------------------------------------
(* SpecMerge: mergeNearbyRegions on lists of regions *)

MaxMergeInputs == 3

\* a region of 2 x 2 pixels at (x, y)
RegionAt(x, y) ==
    [bbox |-> [x |-> x, y |-> y, width |-> 2, height |-> 2],
     centerX |-> (x + 1) * Scale, centerY |-> (y + 1) * Scale, area |-> 4]

MergeInputs ==
    {RegionAt(0, 20), RegionAt(18, 11), RegionAt(18, 29), RegionAt(30, 20),
     RegionAt(80, 20)}

\* the config of the detector that merges the regions (pixels)
MergeConfig == [mergeDistance |-> 20]

InitMerge ==
    /\ InitNoTracker
    /\ det = Idle
    /\ dlast = Idle
    /\ \E regions \in SeqsUpTo(MergeInputs, MaxMergeInputs) :
          probe = [op |-> "mergeNearbyRegions", regions |-> regions,
                   called |-> FALSE, merged |-> <<>>]

\* mergeNearbyRegions(regions) (saliency-detector.ts:678-738,
\* part_002:321-376)
CallMerge ==
    /\ probe.op = "mergeNearbyRegions"
    /\ ~probe.called
    /\ probe' = [probe EXCEPT
                    !.called = TRUE,
                    !.merged = SD_mergeNearbyRegions(probe.regions,
                                                     MergeConfig.mergeDistance)]
    /\ UNCHANGED <<trackerVars, detectorVars>>

NextMerge == CallMerge

SpecMerge == InitMerge /\ [][NextMerge]_vars

\* the centres of regions a and b are closer than limit pixels
CentresCloser(a, b, limit) ==
    (a.centerX - b.centerX) * (a.centerX - b.centerX)
        + (a.centerY - b.centerY) * (a.centerY - b.centerY)
        < (limit * Scale) * (limit * Scale)

\* C31: when mergeNearbyRegions returns no two returned regions have
\* centres closer than mergeDistance to each other
C31_NoMergeLeft ==
    probe.op = "mergeNearbyRegions" /\ probe.called =>
        \A k \in DOMAIN probe.merged, l \in DOMAIN probe.merged :
            k # l => ~CentresCloser(probe.merged[k], probe.merged[l],
                                    MergeConfig.mergeDistance)

\* box outer contains box inner
BoxContains(outer, inner) ==
    /\ outer.x <= inner.x
    /\ outer.y <= inner.y
    /\ outer.x + outer.width >= inner.x + inner.width
    /\ outer.y + outer.height >= inner.y + inner.height

\* the sum of the areas of the regions of list rs whose index is in ks
AreaOf(rs, ks) ==
    SumRange([k \in DOMAIN rs |-> IF k \in ks THEN rs[k].area ELSE 0],
             1, Len(rs))

\* into[k] names, for each region of ins, the one region of outs that took
\* it in: every region of outs has the area of those it took and a bbox
\* that contains theirs
AbsorbedAs(ins, outs, into) ==
    \A m \in DOMAIN outs :
        /\ \E k \in DOMAIN ins : into[k] = m
        /\ outs[m].area = AreaOf(ins, {k \in DOMAIN ins : into[k] = m})
        /\ \A k \in DOMAIN ins :
              into[k] = m => BoxContains(outs[m].bbox, ins[k].bbox)

\* C37: mergeNearbyRegions absorbs every input region into exactly one
\* output region: the output areas add up to the input areas, there are at
\* most as many outputs as inputs, and each output bbox contains the bbox of
\* every input region it absorbed
C37_MergeKeepsRegions ==
    probe.op = "mergeNearbyRegions" /\ probe.called =>
        /\ Len(probe.merged) <= Len(probe.regions)
        /\ AreaOf(probe.merged, DOMAIN probe.merged)
               = AreaOf(probe.regions, DOMAIN probe.regions)
        /\ \E into \in [DOMAIN probe.regions -> DOMAIN probe.merged] :
               AbsorbedAs(probe.regions, probe.merged, into)

\* three regions came back as two, one of them made of two
C37_Witness ==
    /\ probe.op = "mergeNearbyRegions"
    /\ probe.called
    /\ Len(probe.regions) = 3
    /\ Len(probe.merged) = 2
    /\ \E m \in DOMAIN probe.merged : probe.merged[m].area = 8

---------------------------------------------------------------------------
(* SpecDilate: one dilate pass over a mask *)

MaxDilatePixels == 12

\* the widths and heights of the masks dilated
DilateSizes ==
    {s \in (3..MaxDilatePixels) \X (3..MaxDilatePixels) :
        s[1] * s[2] <= MaxDilatePixels}

InitDilate ==
    /\ InitNoTracker
    /\ det = Idle
    /\ dlast = Idle
    /\ \E s \in DilateSizes : \E mask \in [1..(s[1] * s[2]) -> {0, 1}] :
          probe = [op |-> "dilate", width |-> s[1], height |-> s[2],
                   radius |-> 1, mask |-> mask, called |-> FALSE,
                   result |-> <<>>]

\* dilate(mask, width, height, radius) (saliency-detector.ts:489-512,
\* part_002:218-241)
CallDilate ==
    /\ probe.op = "dilate"
    /\ ~probe.called
    /\ probe' = [probe EXCEPT
                    !.called = TRUE,
                    !.result = dilate(probe.mask, probe.width, probe.height,
                                      probe.radius)]
    /\ UNCHANGED <<trackerVars, detectorVars>>

NextDilate == CallDilate

SpecDilate == InitDilate /\ [][NextDilate]_vars

\* pixel j of a mask of width w lies in the (2 radius + 1) x (2 radius + 1)
\* neighbourhood of pixel i
InWindow(w, i, j, radius) ==
    /\ Abs(((i - 1) % w) - ((j - 1) % w)) <= radius
    /\ Abs(((i - 1) \div w) - ((j - 1) \div w)) <= radius

\* C32: a dilate pass of radius r activates every pixel that has an active
\* pixel within its (2r+1) x (2r+1) neighbourhood in the input mask, and no
\* other pixel; in particular every pixel active in the input is active in
\* the output
C32_DilateCovers ==
    probe.op = "dilate" /\ probe.called =>
        \A i \in DOMAIN probe.mask :
            probe.result[i] = 1
                <=> \E j \in DOMAIN probe.mask :
                        /\ probe.mask[j] = 1
                        /\ InWindow(probe.width, i, j, probe.radius)

---------------------------------------------------------------------------
(* More properties of Spec *)

\* C33: a track with timeSinceUpdate > 0 is returned by update() only if at
\* least minHits detections have been assigned to it, its creating detection
\* included. A track was created by one detection and took at most one
\* more in each later call but the last timeSinceUpdate ones, so it has been
\* assigned at most age - timeSinceUpdate detections
C33_ReturnedHaveHits ==
    Updated =>
        \A k \in DOMAIN last.ret :
            last.ret[k].timeSinceUpdate > 0 =>
                last.ret[k].age - last.ret[k].timeSinceUpdate >= last.cfg.minHits

\* the calls of update() on instance i after call n of the log
UpdatesSince(i, n) ==
    Cardinality({m \in DOMAIN log :
                    m > n /\ log[m].inst = i /\ log[m].op = "update"})

\* the calls of the log in which instance i made a track with this id
CreatedIn(i, id) ==
    {n \in DOMAIN log :
        /\ log[n].inst = i
        /\ log[n].op = "update"
        /\ \E c \in DOMAIN log[n].created : log[n].created[c] = id}

\* C35: for every track held by a Tracker age increases by exactly 1 in
\* each update() call the track survives, so age = 1 + the number of update()
\* calls since its creation, and age >= timeSinceUpdate + 1 in every
\* reachable state
C35_AgeCountsCalls ==
    /\ \A i \in Trackers : \A k \in DOMAIN tracks[i] :
          /\ tracks[i][k].age >= tracks[i][k].timeSinceUpdate + 1
          /\ \A n \in CreatedIn(i, tracks[i][k].id) :
                CreatedIn(i, tracks[i][k].id) = {n} =>
                    tracks[i][k].age = 1 + UpdatesSince(i, n)
    /\ Updated =>
          \A k \in DOMAIN Held :
              Held[k].age = IF last.origin[k] = 0 THEN 1
                            ELSE last.pre[last.origin[k]].age + 1

\* a track made two calls of update() ago was matched in one of them and
\* missed in the other
C35_Witness ==
    /\ Updated
    /\ \E k \in DOMAIN Held :
          /\ Held[k].age = 3
          /\ Held[k].timeSinceUpdate = 1
          /\ CreatedIn(last.inst, Held[k].id) # {}

\* the tracks of the list returned that have timeSinceUpdate 0
Fresh(ret) == {k \in DOMAIN ret : ret[k].timeSinceUpdate = 0}

\* C36: for maxAge >= 1 every update(detections) call returns exactly
\* detections.length tracks with timeSinceUpdate = 0, and each input
\* detection is represented by exactly one of them, whose bbox, class and
\* score equal that detection's
C36_DetectionsReturned ==
    Updated /\ last.cfg.maxAge >= 1 =>
        /\ Cardinality(Fresh(last.ret)) = Len(last.dets)
        /\ \E as \in [DOMAIN last.dets -> Fresh(last.ret)] :
              /\ \A d \in DOMAIN last.dets, e \in DOMAIN last.dets :
                    d # e => as[d] # as[e]
              /\ \A d \in DOMAIN last.dets :
                    /\ last.ret[as[d]].bbox = last.dets[d].bbox
                    /\ last.ret[as[d]].class = last.dets[d].class
                    /\ last.ret[as[d]].score = last.dets[d].score

\* of two detections one was matched to a track and one got a new track,
\* and a track that matched neither was returned with them
C36_Witness ==
    /\ Updated
    /\ last.cfg.maxAge >= 1
    /\ Len(last.dets) = 2
    /\ Len(last.matched) = 1
    /\ Len(last.created) = 1
    /\ Len(last.ret) = 3

---------------------------------------------------------------------------
(* SpecLoad: overlapping calls of loadModel() and disposeModel()
   (detection.ts). The calls run on one thread and interleave at their
   awaits; probe holds the module variables model and isLoading and, for
   each call, where it stands *)

\* the calls of loadModel() in a behaviour of SpecLoad
MaxLoadCalls == 3
\* the calls of disposeModel()
MaxDisposeCalls == 1

LoadCalls == 1..MaxLoadCalls

\* the awaits of the loading branch, in order (detection.ts:31-36)
LoadAwaits == <<"setBackend", "ready", "load">>

\* ready[c] says, for a call that has resolved, what isModelReady() gave
\* at that moment
InitLoad ==
    /\ InitNoTracker
    /\ det = Idle
    /\ dlast = Idle
    /\ probe = [op |-> "loadModel", model |-> "null", isLoading |-> FALSE,
                pc |-> [c \in LoadCalls |-> "idle"],
                ready |-> [c \in LoadCalls |-> FALSE],
                failed |-> FALSE, disposed |-> 0]

\* isModelReady() (detection.ts:50-52)
isModelReady(p) == p.model # "null"

\* loadModel() up to its first await or return (detection.ts:18-31)
LoadEntered(p, c) ==
    IF p.model # "null"
    THEN [p EXCEPT !.pc[c] = "resolved", !.ready[c] = isModelReady(p)]
    ELSE IF p.isLoading THEN [p EXCEPT !.pc[c] = "waiting"]
    ELSE [p EXCEPT !.isLoading = TRUE, !.pc[c] = "setBackend"]

LoadCall ==
    /\ probe.op = "loadModel"
    /\ \E c \in LoadCalls :
          /\ probe.pc[c] = "idle"
          /\ \A b \in 1..(c - 1) : probe.pc[b] # "idle"
          /\ probe' = LoadEntered(probe, c)
    /\ UNCHANGED <<trackerVars, detectorVars>>

\* tf.setBackend or tf.ready resolves (detection.ts:31-32)
LoadAwait ==
    /\ probe.op = "loadModel"
    /\ \E c \in LoadCalls :
          \/ probe.pc[c] = "setBackend" /\ probe' = [probe EXCEPT !.pc[c] = "ready"]
          \/ probe.pc[c] = "ready" /\ probe' = [probe EXCEPT !.pc[c] = "load"]
    /\ UNCHANGED <<trackerVars, detectorVars>>

\* cocoSsd.load resolves: the model is stored, finally clears isLoading and
\* the call returns (detection.ts:34-44)
LoadDone ==
    /\ probe.op = "loadModel"
    /\ \E c \in LoadCalls :
          /\ probe.pc[c] = "load"
          /\ probe' = [probe EXCEPT !.model = "loaded", !.isLoading = FALSE,
                                    !.pc[c] = "resolved", !.ready[c] = TRUE]
    /\ UNCHANGED <<trackerVars, detectorVars>>

\* one of the awaited promises rejects: catch rethrows and finally clears
\* isLoading (detection.ts:39-44)
LoadFail ==
    /\ probe.op = "loadModel"
    /\ \E c \in LoadCalls :
          /\ probe.pc[c] \in {LoadAwaits[k] : k \in DOMAIN LoadAwaits}
          /\ probe' = [probe EXCEPT !.isLoading = FALSE, !.pc[c] = "rejected",
                                    !.failed = TRUE]
    /\ UNCHANGED <<trackerVars, detectorVars>>

\* the timer of a waiting call fires with isLoading false: the loop ends and
\* the call returns (detection.ts:22-25); with isLoading true it waits on
\* and nothing changes
WaitWake ==
    /\ probe.op = "loadModel"
    /\ ~probe.isLoading
    /\ \E c \in LoadCalls :
          /\ probe.pc[c] = "waiting"
          /\ probe' = [probe EXCEPT !.pc[c] = "resolved",
                                    !.ready[c] = isModelReady(probe)]
    /\ UNCHANGED <<trackerVars, detectorVars>>

\* disposeModel() (detection.ts:91-96)
Dispose ==
    /\ probe.op = "loadModel"
    /\ probe.disposed < MaxDisposeCalls
    /\ probe' = [probe EXCEPT !.model = "null", !.disposed = @ + 1]
    /\ UNCHANGED <<trackerVars, detectorVars>>

NextLoad == LoadCall \/ LoadAwait \/ LoadDone \/ LoadFail \/ WaitWake \/ Dispose

SpecLoad == InitLoad /\ [][NextLoad]_vars

\* C34: when several loadModel() calls overlap, possibly interleaved with
\* disposeModel(), the model is loaded at most once at a time, and every
\* call's promise resolves only when the model is loaded, isModelReady()
\* being true at the moment it resolves; if the load fails no caller's
\* promise resolves successfully
C34_LoadResolvesReady ==
    probe.op = "loadModel" =>
        /\ Cardinality({c \in LoadCalls :
                           probe.pc[c] \in {"setBackend", "ready", "load"}}) <= 1
        /\ \A c \in LoadCalls : probe.pc[c] = "resolved" => probe.ready[c]

---------------------------------------------------------------------------
(* SpecEvict: a SaliencyDetector shown a block for a few frames and then
   blank frames for longer than it keeps an unobserved region *)

\* the number of frames of the stream
MaxEvictFrames == 20

\* the frames in which the block may be shown
EvictShows == {1, 2, 3, 4, 19}

InitEvict ==
    /\ InitNoTracker
    /\ probe = Idle
    /\ det = SD_Construct(WideOptions)
    /\ dlast = NoCalls

EvictShown ==
    /\ dlast.n < MaxEvictFrames
    /\ dlast.n + 1 \in EvictShows
    /\ \E frame \in {WideLeft, WideBoth} : Detected(frame)

EvictBlank ==
    /\ dlast.n < MaxEvictFrames
    /\ dlast.n >= 2
    /\ Detected(WideBlank)

NextEvict == EvictShown \/ EvictBlank

SpecEvict == InitEvict /\ [][NextEvict]_vars

\* the tracked region of detector d with this id
SaliencyOf(d, id) ==
    d.trackedSaliency[CHOOSE k \in DOMAIN d.trackedSaliency :
                          d.trackedSaliency[k].id = id]

\* C38: a SaliencyDetector keeps emitting a confirmed region that is no
\* longer observed, with its last bbox, for at most 12 further processed
\* frames: every emitted Detection refers to a tracked region last observed
\* at most 12 processed frames ago, and a region unobserved for more than 12
\* frames is evicted and never emitted again
C38_SaliencyEviction ==
    (dlast.op = "detect" /\ det.kind = "saliency") =>
        /\ dlast.path = "processed" =>
               /\ \A id \in DOMAIN dlast.unseen :
                      id \in TrackedIds(det) <=> dlast.unseen[id] <= 12
               /\ \A id \in TrackedIds(det) \cap TrackedIds(dlast.pre) :
                      (id \notin dlast.matchedIds
                           <=> dlast.unseen[id] > 0)
                      /\ (id \notin dlast.matchedIds =>
                             SaliencyOf(det, id).bbox
                                 = SaliencyOf(dlast.pre, id).bbox)
               /\ \A id \in TrackedIds(det) :
                      id \in dlast.emitted
                          <=> SaliencyOf(det, id).framesSeen >= 2
        /\ \A id \in dlast.emitted : dlast.unseen[id] <= 12
        /\ (TrackedIds(det) \cup dlast.emitted) \cap dlast.gone = {}

\* a region is emitted in the twelfth processed frame in a row that did not
\* show it, with the bbox it had when it was last observed
C38_Witness ==
    /\ dlast.op = "detect"
    /\ det.kind = "saliency"
    /\ dlast.path = "processed"
    /\ \E id \in dlast.emitted :
          /\ dlast.unseen[id] = 12
          /\ SaliencyOf(det, id).bbox = SaliencyOf(dlast.pre, id).bbox

=============================================================================
